---- MODULE Spec2Model ----
(***************************************************************************)
(* kzkitty: the map cache, its refresh from the two upstream catalogs      *)
(* (kztimerglobal.com for CS:GO, api.cs2kz.org for CS2), map-name          *)
(* resolution (get_map) and personal-best selection (get_pb).              *)
(*                                                                         *)
(* Three specifications share the variables:                               *)
(*   SpecRefresh  two runs in sequence of one family's refresh_*_db_maps   *)
(*                against upstream responses that stay the same;           *)
(*   SpecMap      calls of get_map against a cache left by a refresh;      *)
(*   SpecPb       calls of CSGOAPI.get_pb on upstream record lists.        *)
(*                                                                         *)
(* Strings are sequences of one-character strings, so that lower-casing,   *)
(* the name regular expression and SQL's icontains are computed.  Python's *)
(* None is None (-1) for optional integers and bytes and NoneStr for       *)
(* optional strings.  A JSON value of the wrong type is None / NoneStr /   *)
(* "notstr" as well: the code tests only isinstance.                       *)
(***************************************************************************)
EXTENDS Integers, Sequences, FiniteSets, TLC

VARIABLES
    db,        \* the Map table: a set of rows
    up,        \* the upstream services' answers during a refresh
    run,       \* refresh runs finished so far (SpecRefresh)
    before,    \* the table before the last run
    res,       \* what the last refresh run did
    res1,      \* what the first refresh run did
    call,      \* the last get_map call and its outcome (SpecMap)
    pb,        \* the last get_pb call and its outcome (SpecPb)
    prof,      \* the get_profile call under way and its outcome (SpecProfile)
    prev       \* the profile the last successful get_profile call returned

vars == <<db, up, run, before, res, res1, call, pb, prof, prev>>

-----------------------------------------------------------------------------
(* Bounds *)

MaxMapId == 2       \* catalog ids are 1..MaxMapId
MaxNameLen == 2     \* longest map name typed by a user
MaxCached == 3      \* maps per family in the fullest cache get_map meets
MaxRecords == 2     \* longest record list the records service answers with

None == -1
NoneStr == <<"None">>

MapIds == 1..MaxMapId
Families == {"csgo", "cs2"}

-----------------------------------------------------------------------------
(* Strings *)

Chars == {"a", "A", "b", "^", "-"}

\* ASCII code of the characters of the model
Ord(c) ==
    CASE c = "a" -> 97 [] c = "A" -> 65 [] c = "b" -> 98 [] c = "B" -> 66
      [] c = "^" -> 94 [] c = "-" -> 45 [] c = "M" -> 77 [] c = "m" -> 109 [] c = "i" -> 105
      [] c = "n" -> 110 [] OTHER -> 0

\* str.lower() on one character
LowerChar(c) ==
    CASE c = "A" -> "a" [] c = "B" -> "b" [] c = "M" -> "m" [] OTHER -> c

Lower(s) == [i \in 1..Len(s) |-> LowerChar(s[i])]

\* Python's `a in b` for strings
Contains(b, a) ==
    \E i \in 0..(Len(b) - Len(a)) : SubSeq(b, i + 1, i + Len(a)) = a

Strings(n) == UNION {[1..k -> Chars] : k \in 0..n}

\* the literal 'Main'
Main == <<"M", "a", "i", "n">>

\* The names the catalogs give their maps: ab, ba, b, bbbb, bbbbb, ... on
\* CS:GO and the same names on CS2 with the first letter in upper case (the
\* two catalogs reuse names).
NameOf(fam, id) ==
    LET n == CASE id = 1 -> <<"a", "b">> [] id = 2 -> <<"b", "a">>
               [] id = 3 -> <<"b">> [] OTHER -> [i \in 1..id |-> "b"]
    IN  IF fam = "csgo" THEN n
        ELSE [i \in 1..Len(n) |->
                 IF i > 1 THEN n[i] ELSE IF n[i] = "a" THEN "A" ELSE "B"]

-----------------------------------------------------------------------------
(* The Map table *)

Row(map_id, is_cs2, name, tier, pro_tier, vnl_tier, vnl_pro_tier, main_course, thumbnail) ==
    [map_id |-> map_id, is_cs2 |-> is_cs2, name |-> name, tier |-> tier,
     pro_tier |-> pro_tier, vnl_tier |-> vnl_tier,
     vnl_pro_tier |-> vnl_pro_tier, main_course |-> main_course,
     thumbnail |-> thumbnail]

\* Map.get(map_id=..., is_cs2=...): the rows the query selects.  One row is
\* the result, none is DoesNotExist, several is MultipleObjectsReturned.
\* Map.get(map_id=...) that leaves out is_cs2
MapGetByIdAnyFamily(table, map_id, is_cs2) ==
    {r \in table : r.map_id = map_id}

MapGetById(table, map_id, is_cs2) ==
    {r \in table : r.map_id = map_id /\ r.is_cs2 = is_cs2}

\* the bytes the image host serves for a name
ImageOf(name) == Len(name)

\* _thumbnail_for_map: the image when the host answers 200, else None
thumbnail_for_map(host, name) ==
    IF host = "up" THEN ImageOf(name) ELSE None

\* _thumbnail_for_map of cs2.py: the image of a course of the map
cs2_thumbnail_for_map(host, name, course_id) ==
    IF host = "up" THEN 10 * ImageOf(name) + course_id ELSE None

-----------------------------------------------------------------------------
(* refresh_csgo_db_maps *)

\* One loop iteration's effect: the table after it and what it did.
Step(table, kind) == [db |-> table, kind |-> kind]

\* _vnl_tiers: the dict id -> (tpTier, proTier) built from vnl.kz's listing;
\* empty when the listing cannot be fetched or is not a list.  Entries with a
\* non-int id or tier are left out; a later entry of the same id wins.
RECURSIVE vnl_tiers_from(_, _, _)
vnl_tiers_from(body, i, acc) ==
    IF i > Len(body) THEN acc
    ELSE LET e == body[i] IN
         IF e.id = None \/ e.tpTier = None \/ e.proTier = None
         THEN vnl_tiers_from(body, i + 1, acc)
         ELSE vnl_tiers_from(body, i + 1,
                  [k \in DOMAIN acc \cup {e.id} |->
                      IF k = e.id THEN <<e.tpTier, e.proTier>> ELSE acc[k]])

vnl_tiers(vnl) ==
    IF vnl.status # "ok" THEN <<>> ELSE vnl_tiers_from(vnl.body, 1, <<>>)

\* vnl_tiers.get(map_id, (10, 10))
vnl_tiers_get(tiers, map_id) ==
    IF map_id \in DOMAIN tiers THEN tiers[map_id] ELSE <<10, 10>>

\* An update branch that counts a row whose tier differs and leaves it as
\* it was
csgo_update_row_unsaved(table, row, name, tier, vt, host) ==
    Step(table, IF row.tier # tier THEN "updated" ELSE "same")

\* An update branch that saves the row and counts it whatever it compared
csgo_update_row_always(table, row, name, tier, vt, host) ==
    Step(table, "updated")

\* The branch for an approved entry whose row exists (csgo.py: else of the
\* try around Map.get): fields are overwritten when they differ.
csgo_update_row(table, row, name, tier, vt, host) ==
    LET thumbnail == IF row.thumbnail = None
                     THEN thumbnail_for_map(host, name) ELSE row.thumbnail
        r1 == IF row.tier # tier
              THEN [row EXCEPT !.tier = tier, !.pro_tier = tier] ELSE row
        r2 == IF r1.vnl_tier # vt[1] /\ vt[1] # None
              THEN [r1 EXCEPT !.vnl_tier = vt[1]] ELSE r1
        r3 == IF r2.vnl_pro_tier # vt[2] /\ vt[2] # None
              THEN [r2 EXCEPT !.vnl_pro_tier = vt[2]] ELSE r2
        r4 == IF r3.thumbnail # thumbnail /\ thumbnail # None
              THEN [r3 EXCEPT !.thumbnail = thumbnail] ELSE r3
    IN  IF r4 # row THEN Step((table \ {row}) \cup {r4}, "updated")
        ELSE Step(table, "same")

\* The body of the loop over the listing for one entry.
csgo_entry(table, e, tiers, host) ==
    IF ~e.dict THEN Step(table, "raise")        \* map_info.get on a non-dict
    ELSE IF e.id = None \/ e.name = NoneStr \/ e.difficulty = None
            \/ e.validated = "bad"
    THEN Step(table, "skip")
    ELSE LET rows == MapGetById(table, e.id, FALSE) IN
         IF Cardinality(rows) > 1 THEN Step(table, "raise")
         ELSE IF e.validated = "false"
         THEN IF rows = {} THEN Step(table, "absent")
              ELSE Step(table \ rows, "deleted")
         ELSE LET vt == vnl_tiers_get(tiers, e.id) IN
              IF rows = {}
              THEN Step(table \cup
                        {Row(e.id, FALSE, e.name, e.difficulty, e.difficulty,
                             vt[1], vt[2], NoneStr,
                             thumbnail_for_map(host, e.name))}, "new")
              ELSE csgo_update_row(table, CHOOSE r \in rows : TRUE,
                                   e.name, e.difficulty, vt, host)

-----------------------------------------------------------------------------
(* The loop of a refresh and its tallies *)

Count(kinds, k) == Cardinality({i \in 1..Len(kinds) : kinds[i] = k})

\* What a run did: whether the listing was fetched, whether the run raised,
\* what each entry it reached came to, and the three tallies it logs.
Result(table, fetched, kinds) ==
    [db |-> table, fetched |-> fetched,
     raised |-> \E i \in 1..Len(kinds) : kinds[i] = "raise",
     kinds |-> kinds,
     new |-> Count(kinds, "new"), updated |-> Count(kinds, "updated"),
     deleted |-> Count(kinds, "deleted")]

RECURSIVE csgo_loop(_, _, _, _, _, _)
csgo_loop(table, body, i, kinds, tiers, host) ==
    IF i > Len(body) THEN Result(table, TRUE, kinds)
    ELSE LET s == csgo_entry(table, body[i], tiers, host) IN
         IF s.kind = "raise"
         THEN Result(s.db, TRUE, Append(kinds, "raise"))
         ELSE csgo_loop(s.db, body, i + 1, Append(kinds, s.kind), tiers, host)

\* A refresh that lets the failure of the listing request escape
refresh_csgo_db_maps_raising(table, u) ==
    IF u.maps.status # "ok" THEN Result(table, FALSE, <<"raise">>)
    ELSE csgo_loop(table, u.maps.body, 1, <<>>, vnl_tiers(u.vnl), u.host)

refresh_csgo_db_maps(table, u) ==
    IF u.maps.status # "ok" THEN Result(table, FALSE, <<>>)
    ELSE csgo_loop(table, u.maps.body, 1, <<>>, vnl_tiers(u.vnl), u.host)

-----------------------------------------------------------------------------
(* refresh_cs2_db_maps *)

\* _tier_num: the tier a tier code names, None for any other string
tier_num(code) ==
    CASE code = "very-easy" -> 1 [] code = "easy" -> 2 [] code = "medium" -> 3
      [] code = "advanced" -> 4 [] code = "hard" -> 5 [] code = "very-hard" -> 6
      [] code = "extreme" -> 7 [] code = "death" -> 8
      [] code = "unfeasible" -> 9 [] code = "impossible" -> 10
      [] OTHER -> None

\* Python's `x or 10` on an optional int
Or10(x) == IF x = None \/ x = 0 THEN 10 ELSE x

\* The checks on an approved entry's first course and its filters: either the
\* five values the row is built from, or "skip" (logged, continue), or "raise".
Parsed(kind, course_name, tier, pro_tier, vnl_tier, vnl_pro_tier) ==
    [kind |-> kind, course_name |-> course_name, tier |-> tier,
     pro_tier |-> pro_tier, vnl_tier |-> vnl_tier,
     vnl_pro_tier |-> vnl_pro_tier]

Unparsed(kind) == Parsed(kind, NoneStr, None, None, None, None)

cs2_parse_courses(e) ==
    IF e.name = NoneStr \/ ~e.coursesOk THEN Unparsed("skip")
    ELSE IF e.courses = <<>> THEN Unparsed("ok")
    ELSE LET c == e.courses[1] IN
         IF ~c.dict THEN Unparsed("skip")
         ELSE IF c.name = NoneStr THEN Unparsed("raise")
         ELSE IF ~c.filtersOk THEN Unparsed("skip")
         ELSE IF c.classic.kind = "bad" THEN Unparsed("skip")
         ELSE IF c.classic.kind = "dict"
                 /\ (c.classic.nub_tier = "notstr"
                     \/ c.classic.pro_tier = "notstr")
         THEN Unparsed("skip")
         ELSE IF c.vanilla.kind = "bad" THEN Unparsed("skip")
         ELSE IF c.vanilla.kind = "dict"
                 /\ (c.vanilla.nub_tier = "notstr"
                     \/ c.vanilla.pro_tier = "notstr")
         THEN Unparsed("skip")
         ELSE Parsed("ok", c.name,
                  IF c.classic.kind = "dict"
                  THEN Or10(tier_num(c.classic.nub_tier)) ELSE None,
                  IF c.classic.kind = "dict"
                  THEN Or10(tier_num(c.classic.pro_tier)) ELSE None,
                  IF c.vanilla.kind = "dict"
                  THEN Or10(tier_num(c.vanilla.nub_tier)) ELSE None,
                  IF c.vanilla.kind = "dict"
                  THEN Or10(tier_num(c.vanilla.pro_tier)) ELSE None)

\* An update branch that fetches the thumbnail anew on every run and stores
\* whatever the fetch gave
cs2_update_row_refetch(table, row, name, p, host) ==
    LET r6 == [row EXCEPT !.thumbnail = cs2_thumbnail_for_map(host, name, 1)]
    IN  IF r6 # row THEN Step((table \ {row}) \cup {r6}, "updated")
        ELSE Step(table, "same")

\* An update branch that overwrites a field whenever the new value differs,
\* None or not
cs2_update_row_nullable(table, row, name, p, host) ==
    LET r6 == [row EXCEPT !.main_course = p.course_name, !.tier = p.tier,
                          !.pro_tier = p.pro_tier, !.vnl_tier = p.vnl_tier,
                          !.vnl_pro_tier = p.vnl_pro_tier]
    IN  IF r6 # row THEN Step((table \ {row}) \cup {r6}, "updated")
        ELSE Step(table, "same")

\* The branch for an approved entry whose row exists: a field is overwritten
\* when the new value differs and is not None.
cs2_update_row(table, row, name, p, host) ==
    LET thumbnail == IF row.thumbnail = None
                     THEN cs2_thumbnail_for_map(host, name, 1) ELSE row.thumbnail
        r1 == IF row.main_course # p.course_name /\ p.course_name # NoneStr
              THEN [row EXCEPT !.main_course = p.course_name] ELSE row
        r2 == IF r1.tier # p.tier /\ p.tier # None
              THEN [r1 EXCEPT !.tier = p.tier] ELSE r1
        r3 == IF r2.pro_tier # p.pro_tier /\ p.pro_tier # None
              THEN [r2 EXCEPT !.pro_tier = p.pro_tier] ELSE r2
        r4 == IF r3.vnl_tier # p.vnl_tier /\ p.vnl_tier # None
              THEN [r3 EXCEPT !.vnl_tier = p.vnl_tier] ELSE r3
        r5 == IF r4.vnl_pro_tier # p.vnl_pro_tier /\ p.vnl_pro_tier # None
              THEN [r4 EXCEPT !.vnl_pro_tier = p.vnl_pro_tier] ELSE r4
        r6 == IF r5.thumbnail # thumbnail /\ thumbnail # None
              THEN [r5 EXCEPT !.thumbnail = thumbnail] ELSE r5
    IN  IF r6 # row THEN Step((table \ {row}) \cup {r6}, "updated")
        ELSE Step(table, "same")

\* The body of the loop over the listing for one entry.
cs2_entry(table, e, host) ==
    IF ~e.dict THEN Step(table, "raise")        \* map_info.get on a non-dict
    ELSE IF e.id = None \/ e.state = "notstr" THEN Step(table, "skip")
    ELSE LET rows == MapGetById(table, e.id, TRUE) IN
         IF e.state # "approved"
         THEN IF Cardinality(rows) > 1 THEN Step(table, "raise")
              ELSE IF rows = {} THEN Step(table, "absent")
              ELSE Step(table \ rows, "deleted")
         ELSE LET p == cs2_parse_courses(e) IN
              IF p.kind # "ok" THEN Step(table, p.kind)
              ELSE IF Cardinality(rows) > 1 THEN Step(table, "raise")
              ELSE IF rows = {}
              THEN Step(table \cup
                        {Row(e.id, TRUE, e.name, p.tier, p.pro_tier,
                             p.vnl_tier, p.vnl_pro_tier, p.course_name,
                             cs2_thumbnail_for_map(host, e.name, 1))}, "new")
              ELSE cs2_update_row(table, CHOOSE r \in rows : TRUE,
                                  e.name, p, host)

RECURSIVE cs2_loop(_, _, _, _, _)
cs2_loop(table, body, i, kinds, host) ==
    IF i > Len(body) THEN Result(table, TRUE, kinds)
    ELSE LET s == cs2_entry(table, body[i], host) IN
         IF s.kind = "raise"
         THEN Result(s.db, TRUE, Append(kinds, "raise"))
         ELSE cs2_loop(s.db, body, i + 1, Append(kinds, s.kind), host)

refresh_cs2_db_maps(table, u) ==
    IF u.maps.status # "ok" THEN Result(table, FALSE, <<>>)
    ELSE cs2_loop(table, u.maps.body, 1, <<>>, u.host)

-----------------------------------------------------------------------------
(* The upstream answers a refresh meets *)

CsgoEntry(dict, id, name, difficulty, validated) ==
    [dict |-> dict, id |-> id, name |-> name, difficulty |-> difficulty,
     validated |-> validated]

\* What kztimerglobal.com may list for map `id`: well-formed entries
\* (validated or not, two difficulties) and entries with one field missing or
\* of the wrong type.
CsgoEntries(id) ==
    LET n == NameOf("csgo", id) IN
    {CsgoEntry(TRUE, id, n, 3, "true"), CsgoEntry(TRUE, id, n, 5, "true"),
     CsgoEntry(TRUE, id, n, 3, "false"),
     CsgoEntry(TRUE, id, NoneStr, 3, "true"),
     CsgoEntry(TRUE, id, n, None, "false"),
     CsgoEntry(TRUE, id, n, 3, "bad")}

\* Entries that carry no usable id: id missing, or the entry is not an object.
CsgoIdless ==
    {CsgoEntry(TRUE, None, NoneStr, None, "bad"),
     CsgoEntry(FALSE, None, NoneStr, None, "bad")}

Filter(kind, nub_tier, pro_tier) ==
    [kind |-> kind, nub_tier |-> nub_tier, pro_tier |-> pro_tier]

NoFilter == Filter("none", "notstr", "notstr")

Course(dict, name, filtersOk, classic, vanilla) ==
    [dict |-> dict, name |-> name, filtersOk |-> filtersOk,
     classic |-> classic, vanilla |-> vanilla]

Cs2Entry(dict, id, state, name, coursesOk, courses) ==
    [dict |-> dict, id |-> id, state |-> state, name |-> name,
     coursesOk |-> coursesOk, courses |-> courses]

\* The first course of a CS2 listing entry: well-formed ones (with and without
\* a vanilla filter, nub and pro tiers differing, a tier code the table does not
\* know) and the malformed shapes the loop tests for.
Cs2Courses ==
    {Course(TRUE, Main, TRUE, Filter("dict", "easy", "medium"), NoFilter),
     Course(TRUE, <<"a">>, TRUE, Filter("dict", "hard", "unknown"),
            Filter("dict", "death", "impossible")),
     Course(FALSE, NoneStr, FALSE, NoFilter, NoFilter),
     Course(TRUE, NoneStr, TRUE, Filter("dict", "easy", "medium"), NoFilter),
     Course(TRUE, Main, FALSE, NoFilter, NoFilter),
     Course(TRUE, Main, TRUE, Filter("bad", "notstr", "notstr"), NoFilter),
     Course(TRUE, Main, TRUE, Filter("dict", "easy", "notstr"), NoFilter),
     Course(TRUE, Main, TRUE, NoFilter, Filter("bad", "notstr", "notstr")),
     Course(TRUE, Main, TRUE, NoFilter, Filter("dict", "notstr", "easy"))}

Cs2Entries(id) ==
    LET n == NameOf("cs2", id) IN
    {Cs2Entry(TRUE, id, "approved", n, TRUE, <<c>>) : c \in Cs2Courses}
    \cup
    {Cs2Entry(TRUE, id, "approved", n, TRUE, <<>>),
     Cs2Entry(TRUE, id, "pending", n, TRUE, <<>>),
     Cs2Entry(TRUE, id, "pending", NoneStr, FALSE, <<>>),
     Cs2Entry(TRUE, id, "notstr", n, TRUE, <<>>),
     Cs2Entry(TRUE, id, "approved", NoneStr, TRUE, <<>>),
     Cs2Entry(TRUE, id, "approved", n, FALSE, <<>>)}

Cs2Idless ==
    {Cs2Entry(TRUE, None, "approved", NoneStr, FALSE, <<>>),
     Cs2Entry(FALSE, None, "notstr", NoneStr, FALSE, <<>>)}

Entries(fam, id) == IF fam = "csgo" THEN CsgoEntries(id) ELSE Cs2Entries(id)

Idless(fam) == IF fam = "csgo" THEN CsgoIdless ELSE Cs2Idless

\* A catalog lists a map id at most once, in id order; one id-less entry may
\* come first.
RECURSIVE ListingsFrom(_, _)
ListingsFrom(fam, k) ==
    IF k > MaxMapId THEN {<<>>}
    ELSE LET rest == ListingsFrom(fam, k + 1) IN
         rest \cup {<<e>> \o l : e \in Entries(fam, k), l \in rest}

Listings(fam) ==
    LET ls == ListingsFrom(fam, 1) IN
    ls \cup {<<e>> \o l : e \in Idless(fam), l \in ls}

Response(status, body) == [status |-> status, body |-> body]

\* The listing request: 200 with a list, or a failure (non-200, ClientError,
\* a body of another shape), which the code does not tell apart.
MapsResponses(fam) ==
    {Response("error", <<>>)} \cup {Response("ok", l) : l \in Listings(fam)}

VnlEntry(id, tpTier, proTier) == [id |-> id, tpTier |-> tpTier, proTier |-> proTier]

\* vnl.kz's listing: a failure, an empty list, tiers for map 1, and a list
\* with a malformed entry.
VnlResponses ==
    {Response("error", <<>>), Response("ok", <<>>),
     Response("ok", <<VnlEntry(1, 2, 4)>>),
     Response("ok", <<VnlEntry(1, None, 4), VnlEntry(MaxMapId, 6, 6)>>)}

NoVnl == Response("error", <<>>)

Hosts == {"up", "down"}

Upstream(fam, maps, vnl, host) ==
    [fam |-> fam, maps |-> maps, vnl |-> vnl, host |-> host]

Upstreams ==
    {Upstream("csgo", m, v, h) :
        m \in MapsResponses("csgo"), v \in VnlResponses, h \in Hosts}
    \cup
    {Upstream("cs2", m, NoVnl, h) : m \in MapsResponses("cs2"), h \in Hosts}

refresh(table, u) ==
    IF u.fam = "csgo" THEN refresh_csgo_db_maps(table, u)
    ELSE refresh_cs2_db_maps(table, u)

\* refresh_db_maps: the CS:GO catalog, then the CS2 catalog
refresh_db_maps(table, ucsgo, ucs2) ==
    LET first == refresh_csgo_db_maps(table, ucsgo)
    IN  IF first.raised THEN first.db
        ELSE refresh_cs2_db_maps(first.db, ucs2).db

\* A well-formed listing of maps 1..n, all validated / approved: on CS2 the
\* maps have, in turn, a course with both filters, a course 'Main' with the
\* classic filter only, and no course.
FullListing(fam, n) ==
    [i \in 1..n |->
        IF fam = "csgo"
        THEN CsgoEntry(TRUE, i, NameOf(fam, i), 5, "true")
        ELSE Cs2Entry(TRUE, i, "approved", NameOf(fam, i), TRUE,
                 CASE i % 3 = 1 ->
                        <<Course(TRUE, <<"a">>, TRUE,
                                 Filter("dict", "hard", "unknown"),
                                 Filter("dict", "death", "impossible"))>>
                   [] i % 3 = 2 ->
                        <<Course(TRUE, Main, TRUE,
                                 Filter("dict", "easy", "medium"), NoFilter)>>
                   [] OTHER -> <<>>)]

\* Tables an earlier refresh_db_maps left: the empty table of a first start,
\* a table holding map 1 of both families without thumbnails (image host
\* down, vnl.kz listing map 1), and one holding maps 1..n with thumbnails
\* (vnl.kz down).
Tables(n) ==
    {{},
     refresh_db_maps({},
         Upstream("csgo", Response("ok", FullListing("csgo", 1)),
                  Response("ok", <<VnlEntry(1, 2, 4)>>), "down"),
         Upstream("cs2", Response("ok", FullListing("cs2", 1)),
                  NoVnl, "down")),
     refresh_db_maps({},
         Upstream("csgo", Response("ok", FullListing("csgo", n)), NoVnl, "up"),
         Upstream("cs2", Response("ok", FullListing("cs2", n)), NoVnl, "up"))}

EarlierTables == Tables(MaxMapId)

-----------------------------------------------------------------------------
(* SpecRefresh: one family's refresh, run again and again against the same
   upstream answers *)

MaxRuns == 2

NoResult == Result({}, FALSE, <<>>)
NoCall == [op |-> "none"]
NoPb == [op |-> "none"]
NoProf == [op |-> "none", profile |-> [mode |-> "none"]]

InitRefresh ==
    /\ db \in EarlierTables
    /\ up \in Upstreams
    /\ run = 0
    /\ before = db
    /\ res = NoResult
    /\ res1 = NoResult
    /\ call = NoCall
    /\ pb = NoPb
    /\ prof = NoProf
    /\ prev = NoProf.profile

RefreshDone(r) ==
    /\ run < MaxRuns
    /\ db' = r.db
    /\ before' = db
    /\ res' = r
    /\ res1' = IF run = 0 THEN r ELSE res1
    /\ run' = run + 1
    /\ UNCHANGED <<up, call, pb, prof, prev>>

RefreshCsgo == up.fam = "csgo" /\ RefreshDone(refresh_csgo_db_maps(db, up))

RefreshCs2 == up.fam = "cs2" /\ RefreshDone(refresh_cs2_db_maps(db, up))

NextRefresh == RefreshCsgo \/ RefreshCs2

SpecRefresh == InitRefresh /\ [][NextRefresh]_vars

-----------------------------------------------------------------------------
(* Claims about refresh (SpecRefresh) *)

\* The listing the last run fetched, and the entries its loop reached.
Listing == IF up.maps.status = "ok" THEN up.maps.body ELSE <<>>
Reached == 1..Len(res.kinds)

\* Rows of the refreshed family
OwnRows(table) == {r \in table : r.is_cs2 = (up.fam = "cs2")}

\* A row of the table before the run whose map is no longer cached after it
Removed(r) == ~\E x \in db : x.map_id = r.map_id /\ x.is_cs2 = r.is_cs2

C7_NeverRaises ==
    (run >= 1 /\ up.maps.status = "ok"
       /\ \A i \in 1..Len(Listing) : Listing[i].dict)
    => (~res.raised /\ Len(res.kinds) = Len(Listing))

\* C8 (as claimed): when vnl.kz's listing cannot be fetched and the catalog
\* listing can, every CS:GO row cached before the run that is still cached
\* after it has the VNL tiers it had.
C8_VnlFailureKeepsTiers ==
    (run >= 1 /\ up.fam = "csgo" /\ up.maps.status = "ok"
       /\ up.vnl.status = "error")
    => \A r \in OwnRows(before) : \A r2 \in MapGetById(db, r.map_id, FALSE) :
           r2.vnl_tier = r.vnl_tier /\ r2.vnl_pro_tier = r.vnl_pro_tier

\* An entry that names a map and says it is not validated / not approved
NotApproved(e) ==
    /\ e.dict /\ e.id # None
    /\ IF up.fam = "csgo" THEN e.validated = "false"
       ELSE e.state \notin {"approved", "notstr"}

\* The field checks the loop makes before it tests the state
PassesChecksBeforeState(e) ==
    /\ e.dict /\ e.id # None
    /\ IF up.fam = "csgo"
       THEN e.name # NoneStr /\ e.difficulty # None /\ e.validated # "bad"
       ELSE e.state # "notstr"

\* C9 (as claimed): a run removes a cached row exactly when the listing holds
\* an entry of its id that is not validated / approved, and counts it.
C9_RemovedIffListedNotApproved ==
    run >= 1 =>
      /\ \A r \in OwnRows(before) :
            Removed(r) <=> \E i \in 1..Len(Listing) :
                              Listing[i].id = r.map_id /\ NotApproved(Listing[i])
      /\ res.deleted = Cardinality({r \in OwnRows(before) : Removed(r)})

\* C9 (amended): a run removes a cached row exactly when its loop reaches an
\* entry of that id that passes the checks made before the state test and is
\* not validated / approved; it counts each removal, and never removes a row
\* of the other family.
C9_RemovedIffReachedNotApproved ==
    run >= 1 =>
      /\ \A r \in OwnRows(before) :
            Removed(r) <=> \E i \in Reached :
                              /\ Listing[i].id = r.map_id
                              /\ NotApproved(Listing[i])
                              /\ PassesChecksBeforeState(Listing[i])
      /\ res.deleted = Cardinality({r \in OwnRows(before) : Removed(r)})
      /\ before \ OwnRows(before) \subseteq db

\* C9 witness: a run that removed a row and kept another whose entry says
\* "not validated" but lacks its difficulty.
C9_Witness ==
    /\ run = 1 /\ res.deleted = 1
    /\ \E r \in OwnRows(before) :
          /\ ~Removed(r)
          /\ \E i \in Reached : /\ Listing[i].id = r.map_id
                                /\ NotApproved(Listing[i])

NewValues(e, row) ==
    IF up.fam = "csgo"
    THEN LET vt == vnl_tiers_get(vnl_tiers(up.vnl), e.id)
         IN  Row(e.id, FALSE, row.name, e.difficulty, e.difficulty, vt[1],
                 vt[2], NoneStr,
                 IF row.thumbnail = None
                 THEN thumbnail_for_map(up.host, e.name) ELSE None)
    ELSE LET p == cs2_parse_courses(e)
         IN  Row(e.id, TRUE, row.name, p.tier, p.pro_tier, p.vnl_tier,
                 p.vnl_pro_tier, p.course_name,
                 IF row.thumbnail = None
                 THEN cs2_thumbnail_for_map(up.host, e.name, 1) ELSE None)

-----------------------------------------------------------------------------
(* get_map: validation and resolution against the table, both families *)

Modes == {"KZT", "SKZ", "VNL", "CKZ", "VNL2"}

\* api_for_mode
FamilyOf(mode) == IF mode \in {"KZT", "SKZ", "VNL"} THEN "csgo" ELSE "cs2"

\* One character against the class [A-za-z0-9_]: the ranges A-z, a-z, 0-9
\* and the underscore, by character code.
NameCharOk(c) ==
    LET o == Ord(c) IN
    \/ (65 <= o /\ o <= 122)
    \/ (97 <= o /\ o <= 122)
    \/ (48 <= o /\ o <= 57)
    \/ o = 95

\* re.fullmatch('[A-za-z0-9_]+', name)
NameOk(name) == name # <<>> /\ \A i \in 1..Len(name) : NameCharOk(name[i])

\* A Map.get that compares names exactly (name=name)
MapGetByNameExact(table, name, is_cs2) ==
    {r \in table : r.is_cs2 = is_cs2 /\ r.name = name}

\* A Map.filter that leaves out is_cs2
MapFilterByNameAnyFamily(table, name, is_cs2) ==
    {r \in table : Contains(Lower(r.name), Lower(name))}

\* Map.get(name__iexact=name, is_cs2=...): the rows the query selects
MapGetByName(table, name, is_cs2) ==
    {r \in table : r.is_cs2 = is_cs2 /\ Lower(r.name) = Lower(name)}

\* A Map.filter that looks for the name at the start only (name__istartswith)
MapFilterByNamePrefix(table, name, is_cs2) ==
    {r \in table : r.is_cs2 = is_cs2 /\ Len(name) <= Len(r.name)
                   /\ Lower(SubSeq(r.name, 1, Len(name))) = Lower(name)}

\* Map.filter(name__icontains=name, is_cs2=...)
MapFilterByName(table, name, is_cs2) ==
    {r \in table : r.is_cs2 = is_cs2 /\ Contains(Lower(r.name), Lower(name))}

Resolved(kind, rows, io) == [kind |-> kind, rows |-> rows, io |-> io]

\* A resolution that looks at the substring matches before the exact match
resolve_filter_first(table, name, is_cs2) ==
    LET exact == MapGetByName(table, name, is_cs2)
        subs == MapFilterByName(table, name, is_cs2)
    IN  IF Cardinality(subs) > 1
        THEN Resolved("ambiguous", subs, <<"db_get", "db_filter">>)
        ELSE IF exact # {} THEN Resolved("row", exact, <<"db_get">>)
        ELSE IF subs # {} THEN Resolved("row", subs, <<"db_get", "db_filter">>)
        ELSE Resolved("none", {}, <<"db_get", "db_filter">>)

\* The try/except around Map.get in get_map: the exact match, else the only
\* substring match, else nothing ("none"); several substring matches are
\* "ambiguous", several exact ones MultipleObjectsReturned ("multiple").
resolve(table, name, is_cs2) ==
    LET exact == MapGetByName(table, name, is_cs2)
        subs == MapFilterByName(table, name, is_cs2)
    IN  IF Cardinality(exact) > 1
        THEN Resolved("multiple", exact, <<"db_get">>)
        ELSE IF exact # {} THEN Resolved("row", exact, <<"db_get">>)
        ELSE IF Cardinality(subs) > 1
        THEN Resolved("ambiguous", subs, <<"db_get", "db_filter">>)
        ELSE IF subs # {} THEN Resolved("row", subs, <<"db_get", "db_filter">>)
        ELSE Resolved("none", {}, <<"db_get", "db_filter">>)

APIMap(name, mode, bonus, course, tier, tier_name, pro_tier, pro_tier_name, max_tier, thumbnail) ==
    [name |-> name, mode |-> mode, bonus |-> bonus, course |-> course,
     tier |-> tier, tier_name |-> tier_name, pro_tier |-> pro_tier,
     pro_tier_name |-> pro_tier_name, max_tier |-> max_tier,
     thumbnail |-> thumbnail]

NoMap == APIMap(NoneStr, "none", None, NoneStr, None, "None", None, "None",
                None, None)

\* How a call ended: "ok" with the APIMap, or the exception raised (with the
\* candidate rows of an APIMapAmbiguousError), and the I/O it did, in order.
Outcome(kind, map, db_maps, io) ==
    [kind |-> kind, map |-> map, db_maps |-> db_maps, io |-> io]

Raise(kind, io) == Outcome(kind, NoMap, {}, io)

-----------------------------------------------------------------------------
(* CSGOAPI.get_map *)

\* _tier_name of csgo.py: names.get(tier or -1, 'Unknown')
csgo_tier_name(tier, mode) ==
    IF mode = "VNL"
    THEN CASE tier = 1 -> "Very Easy" [] tier = 2 -> "Easy"
           [] tier = 3 -> "Medium" [] tier = 4 -> "Advanced"
           [] tier = 5 -> "Hard" [] tier = 6 -> "Very Hard"
           [] tier = 7 -> "Extreme" [] tier = 8 -> "Death"
           [] tier = 9 -> "Unfeasible" [] tier = 10 -> "Impossible"
           [] OTHER -> "Unknown"
    ELSE CASE tier = 1 -> "Very Easy" [] tier = 2 -> "Easy"
           [] tier = 3 -> "Medium" [] tier = 4 -> "Hard"
           [] tier = 5 -> "Very Hard" [] tier = 6 -> "Extreme"
           [] tier = 7 -> "Death" [] OTHER -> "Unknown"

\* An answer of kztimerglobal.com/api/v2.0/maps/name/{name}
CsgoMapResponse(status, json, difficulty) ==
    [status |-> status, json |-> json, difficulty |-> difficulty]

CsgoMapResponses ==
    {CsgoMapResponse("client_error", "null", None),
     CsgoMapResponse("404", "null", None),
     CsgoMapResponse("500", "null", None),
     CsgoMapResponse("200", "null", None),
     CsgoMapResponse("200", "notdict", None),
     CsgoMapResponse("200", "dict", None),
     CsgoMapResponse("200", "dict", 4)}

\* An answer of vnl.kz/api/maps/{name}
VnlMapResponse(status, json, tpTier, proTier) ==
    [status |-> status, json |-> json, tpTier |-> tpTier, proTier |-> proTier]

VnlMapResponses ==
    {VnlMapResponse("client_error", "notdict", None, None),
     VnlMapResponse("404", "notdict", None, None),
     VnlMapResponse("500", "notdict", None, None),
     VnlMapResponse("200", "notdict", None, None),
     VnlMapResponse("200", "dict", 3, None),
     VnlMapResponse("200", "dict", 3, 6)}

\* _vnl_tiers_for_map: (tier, pro tier), or the exception it raises
VnlTiers(kind, tier, pro_tier) ==
    [kind |-> kind, tier |-> tier, pro_tier |-> pro_tier]

\* _vnl_tiers_for_map without the special case of 404
vnl_tiers_for_map_strict(r) ==
    IF r.status = "client_error" THEN VnlTiers("APIConnectionError", None, None)
    ELSE IF r.status # "200" THEN VnlTiers("APIError", None, None)
    ELSE IF r.json # "dict" THEN VnlTiers("APIError", None, None)
    ELSE IF r.tpTier = None \/ r.proTier = None
    THEN VnlTiers("APIError", None, None)
    ELSE VnlTiers("ok", r.tpTier, r.proTier)

\* _vnl_tiers_for_map answering (10, 10) for every failure
vnl_tiers_for_map_lenient(r) ==
    IF r.status = "200" /\ r.json = "dict" /\ r.tpTier # None
       /\ r.proTier # None
    THEN VnlTiers("ok", r.tpTier, r.proTier)
    ELSE VnlTiers("ok", 10, 10)

\* _vnl_tiers_for_map
vnl_tiers_for_map(r) ==
    IF r.status = "client_error" THEN VnlTiers("APIConnectionError", None, None)
    ELSE IF r.status = "404" THEN VnlTiers("ok", 10, 10)
    ELSE IF r.status # "200" THEN VnlTiers("APIError", None, None)
    ELSE IF r.json # "dict" THEN VnlTiers("APIError", None, None)
    ELSE IF r.tpTier = None \/ r.proTier = None
    THEN VnlTiers("APIError", None, None)
    ELSE VnlTiers("ok", r.tpTier, r.proTier)

\* get_map from `if course is not None` on: name, tiers and thumbnail are
\* those of the row or of the by-name answer.
csgo_build_map(mode, name, tier, pro_tier, vnl_tier, vnl_pro_tier, thumbnail, course, bonus, rvnl, host, io) ==
    IF course # NoneStr THEN Raise("APIMapError", io)
    ELSE
    LET b == IF bonus = 0 THEN None ELSE bonus            \* bonus or None
        askVnl == b = None /\ mode = "VNL"
                  /\ (vnl_tier = None \/ vnl_pro_tier = None)
        vt == vnl_tiers_for_map(rvnl)
        t == IF b # None THEN None
             ELSE IF mode # "VNL" THEN tier
             ELSE IF askVnl THEN vt.tier      \* None when the lookup raised
             ELSE vnl_tier
        pt == IF b # None THEN None
              ELSE IF mode # "VNL" THEN pro_tier
              ELSE IF askVnl THEN vt.pro_tier
              ELSE vnl_pro_tier
        io2 == IF askVnl THEN Append(io, "http_vnl") ELSE io
        io3 == IF thumbnail = None THEN Append(io2, "http_thumb") ELSE io2
    IN  Outcome("ok",
            APIMap(name, mode, b, NoneStr, t,
                   IF b # None THEN "None" ELSE csgo_tier_name(t, mode),
                   pt,
                   IF b # None THEN "None" ELSE csgo_tier_name(pt, mode),
                   IF b = None /\ mode = "VNL" THEN 10 ELSE 7,
                   IF thumbnail = None THEN thumbnail_for_map(host, name)
                   ELSE thumbnail),
            {}, io3)

\* The else branch of `if db_map is not None`: the by-name lookup
csgo_remote_map(mode, name, course, bonus, rmap, rvnl, host, io) ==
    LET io1 == Append(io, "http_map") IN
    IF rmap.status = "client_error" THEN Raise("APIConnectionError", io1)
    ELSE IF rmap.status # "200" THEN Raise("APIError", io1)
    ELSE IF rmap.json = "null" THEN Raise("APIMapNotFoundError", io1)
    ELSE IF rmap.json # "dict" THEN Raise("APIError", io1)
    ELSE IF rmap.difficulty = None THEN Raise("APIError", io1)
    ELSE csgo_build_map(mode, name, rmap.difficulty, rmap.difficulty, None,
                        None, None, course, bonus, rvnl, host, io1)

csgo_get_map(table, mode, name, course, bonus, rmap, rvnl, host) ==
    IF ~NameOk(name) THEN Raise("APIMapError", <<>>)
    ELSE LET r == resolve(table, name, FALSE) IN
         IF r.kind = "multiple" THEN Raise("MultipleObjectsReturned", r.io)
         ELSE IF r.kind = "ambiguous"
         THEN Outcome("APIMapAmbiguousError", NoMap, r.rows, r.io)
         ELSE IF r.kind = "row"
         THEN LET m == CHOOSE x \in r.rows : TRUE IN
              csgo_build_map(mode, m.name, m.tier, m.pro_tier, m.vnl_tier,
                             m.vnl_pro_tier, m.thumbnail, course, bonus,
                             rvnl, host, r.io)
         ELSE csgo_remote_map(mode, name, course, bonus, rmap, rvnl, host,
                              r.io)

-----------------------------------------------------------------------------
(* CS2API.get_map *)

\* _tier_name of cs2.py
cs2_tier_name(tier) ==
    CASE tier = 1 -> "Very Easy" [] tier = 2 -> "Easy" [] tier = 3 -> "Medium"
      [] tier = 4 -> "Advanced" [] tier = 5 -> "Hard" [] tier = 6 -> "Very Hard"
      [] tier = 7 -> "Extreme" [] tier = 8 -> "Death"
      [] tier = 9 -> "Unfeasible" [] tier = 10 -> "Impossible"
      [] OTHER -> "Unknown"

\* An answer of api.cs2kz.org/maps/{name}
Cs2MapResponse(status, json, coursesOk, courses) ==
    [status |-> status, json |-> json, coursesOk |-> coursesOk,
     courses |-> courses]

CourseMain ==
    Course(TRUE, Main, TRUE, Filter("dict", "easy", "medium"), NoFilter)
CourseAb ==
    Course(TRUE, <<"a", "b">>, TRUE, Filter("dict", "hard", "unknown"),
           Filter("dict", "death", "impossible"))

Cs2MapResponses ==
    {Cs2MapResponse("client_error", "notdict", FALSE, <<>>),
     Cs2MapResponse("404", "notdict", FALSE, <<>>),
     Cs2MapResponse("500", "notdict", FALSE, <<>>),
     Cs2MapResponse("200", "notdict", FALSE, <<>>),
     Cs2MapResponse("200", "dict", FALSE, <<>>),
     Cs2MapResponse("200", "dict", TRUE, <<>>),
     Cs2MapResponse("200", "dict", TRUE, <<CourseMain, CourseAb>>)}
    \cup {Cs2MapResponse("200", "dict", TRUE, <<c>>) : c \in Cs2Courses}

Found(kind, course_id) == [kind |-> kind, course_id |-> course_id]

\* The for/else over enumerate(courses, start=1): the first course whose name
\* contains the wanted one, APIError at a malformed course met before it,
\* APIMapError when the loop ends without a match.
RECURSIVE cs2_find_course(_, _, _)
cs2_find_course(courses, i, course) ==
    IF i > Len(courses) THEN Found("APIMapError", None)
    ELSE IF ~courses[i].dict \/ courses[i].name = NoneStr
    THEN Found("APIError", None)
    ELSE IF Contains(Lower(courses[i].name), Lower(course)) THEN Found("ok", i)
    ELSE cs2_find_course(courses, i + 1, course)

\* `if courses and course is None` and its else branch
cs2_select_course(courses, course) ==
    IF courses # <<>> /\ course = NoneStr
    THEN IF ~courses[1].dict \/ courses[1].name = NoneStr
         THEN Found("APIError", None) ELSE Found("ok", 1)
    ELSE cs2_find_course(courses, 1,
                         IF course = NoneStr \/ course = <<>> THEN Main
                         ELSE course)

\* What get_map returns, from `tier_name = _tier_name(tier)` on
cs2_return_map(mode, name, course_name, course_id, tier, pro_tier, thumbnail, host, io) ==
    Outcome("ok",
        APIMap(name, mode, None, course_name, tier, cs2_tier_name(tier),
               tier, cs2_tier_name(pro_tier), 7,
               IF thumbnail = None
               THEN cs2_thumbnail_for_map(host, name, course_id)
               ELSE thumbnail),
        {}, IF thumbnail = None THEN Append(io, "http_thumb") ELSE io)

\* The else branch of the test on db_map and course: the by-name lookup
cs2_remote_map(mode, name, course, bonus, rmap, host, io) ==
    LET io1 == Append(io, "http_map") IN
    IF rmap.status = "client_error" THEN Raise("APIConnectionError", io1)
    ELSE IF rmap.status = "404" THEN Raise("APIMapNotFoundError", io1)
    ELSE IF rmap.status # "200" THEN Raise("APIError", io1)
    ELSE IF bonus # None THEN Raise("APIMapError", io1)
    ELSE IF rmap.json # "dict" \/ ~rmap.coursesOk THEN Raise("APIError", io1)
    ELSE LET f == cs2_select_course(rmap.courses, course) IN
         IF f.kind # "ok" THEN Raise(f.kind, io1)
         ELSE LET c == rmap.courses[f.course_id]
                  flt == IF mode = "VNL2" THEN c.vanilla ELSE c.classic
              IN  IF ~c.filtersOk THEN Raise("APIError", io1)
                  ELSE IF flt.kind = "bad" THEN Raise("AttributeError", io1)
                  ELSE IF flt.kind = "none"
                  THEN cs2_return_map(mode, name, c.name, f.course_id, None,
                                      None, None, host, io1)
                  ELSE IF flt.nub_tier = "notstr" \/ flt.pro_tier = "notstr"
                  THEN Raise("APIError", io1)
                  ELSE cs2_return_map(mode, name, c.name, f.course_id,
                                      tier_num(flt.nub_tier),
                                      tier_num(flt.pro_tier), None, host, io1)

cs2_get_map(table, mode, name, course, bonus, rmap, host) ==
    IF ~NameOk(name) THEN Raise("APIMapError", <<>>)
    ELSE LET r == resolve(table, name, TRUE) IN
         IF r.kind = "multiple" THEN Raise("MultipleObjectsReturned", r.io)
         ELSE IF r.kind = "ambiguous"
         THEN Outcome("APIMapAmbiguousError", NoMap, r.rows, r.io)
         ELSE IF r.kind = "none"
         THEN cs2_remote_map(mode, name, course, bonus, rmap, host, r.io)
         ELSE LET m == CHOOSE x \in r.rows : TRUE IN
              IF course # NoneStr /\ m.main_course = NoneStr
              THEN Raise("AttributeError", r.io)      \* None.lower()
              ELSE IF course # NoneStr /\ Lower(course) # Lower(m.main_course)
              THEN cs2_remote_map(mode, m.name, course, bonus, rmap, host,
                                  r.io)
              ELSE IF bonus # None THEN Raise("APIMapError", r.io)
              ELSE cs2_return_map(mode, m.name,
                       IF m.main_course = NoneStr \/ m.main_course = <<>>
                       THEN Main ELSE m.main_course,
                       1,
                       IF mode = "VNL2" THEN m.vnl_tier ELSE m.tier,
                       IF mode = "VNL2" THEN m.vnl_pro_tier ELSE m.pro_tier,
                       m.thumbnail, host, r.io)

-----------------------------------------------------------------------------
(* SpecMap: calls of get_map against a table a refresh left *)

Queries == Strings(MaxNameLen)
CourseArgs == {NoneStr, <<"A">>, <<"b">>}
BonusArgs == {None, 0, 1}

Unused == [status |-> "unused"]

\* A get_map that saved the map it built from the remote lookup
GetMapTableSaved(table, out) ==
    IF out.kind = "ok" /\ \E i \in 1..Len(out.io) : out.io[i] = "http_map"
    THEN table \cup {Row(MaxCached + 1, FALSE, out.map.name, out.map.tier,
                         out.map.pro_tier, None, None, NoneStr,
                         out.map.thumbnail)}
    ELSE table

\* get_map has no statement that writes the table: the table after a call
GetMapTable(table, out) == table

Call(mode, name, course, bonus, rmap, rvnl, host, out) ==
    [op |-> "get_map", mode |-> mode, name |-> name, course |-> course,
     bonus |-> bonus,
     rmap |-> IF \E i \in 1..Len(out.io) : out.io[i] = "http_map"
              THEN rmap ELSE Unused,
     rvnl |-> IF \E i \in 1..Len(out.io) : out.io[i] = "http_vnl"
              THEN rvnl ELSE Unused,
     host |-> IF \E i \in 1..Len(out.io) : out.io[i] = "http_thumb"
              THEN host ELSE "unused",
     out |-> out]

InitMap ==
    /\ db \in Tables(MaxCached)
    /\ up = Upstream("none", Response("error", <<>>), NoVnl, "down")
    /\ run = 0
    /\ before = db
    /\ res = NoResult
    /\ res1 = NoResult
    /\ call = NoCall
    /\ pb = NoPb
    /\ prof = NoProf
    /\ prev = NoProf.profile

GetMapDone(c) ==
    /\ call' = c
    /\ db' = GetMapTable(db, c.out)
    /\ before' = db
    /\ UNCHANGED <<up, run, res, res1, pb, prof, prev>>

GetMapCsgo ==
    /\ call = NoCall
    /\ \E mode \in {"KZT", "SKZ", "VNL"}, name \in Queries,
       course \in CourseArgs, bonus \in BonusArgs :
      \E rmap \in IF NameOk(name) /\ resolve(db, name, FALSE).kind = "none"
                  THEN CsgoMapResponses ELSE {Unused},
         rvnl \in IF mode = "VNL" /\ NameOk(name) THEN VnlMapResponses
                  ELSE {Unused},
         host \in Hosts :
        GetMapDone(Call(mode, name, course, bonus, rmap, rvnl, host,
                        csgo_get_map(db, mode, name, course, bonus, rmap,
                                     rvnl, host)))

GetMapCs2 ==
    /\ call = NoCall
    /\ \E mode \in {"CKZ", "VNL2"}, name \in Queries,
       course \in CourseArgs, bonus \in BonusArgs :
      \E rmap \in IF NameOk(name) /\ resolve(db, name, TRUE).kind # "ambiguous"
                  THEN Cs2MapResponses ELSE {Unused},
         host \in Hosts :
        GetMapDone(Call(mode, name, course, bonus, rmap, Unused, host,
                        cs2_get_map(db, mode, name, course, bonus, rmap,
                                    host)))

\* The caller has the outcome; the next call may start.
GetMapReturn ==
    /\ call # NoCall
    /\ call' = NoCall
    /\ before' = db
    /\ UNCHANGED <<db, up, run, res, res1, pb, prof, prev>>

NextMap == GetMapCsgo \/ GetMapCs2 \/ GetMapReturn

SpecMap == InitMap /\ [][NextMap]_vars

-----------------------------------------------------------------------------
(* Claims about get_map (SpecMap) *)

IsCall == call.op = "get_map"
CallCs2 == FamilyOf(call.mode) = "cs2"
DidIo(x) == \E i \in 1..Len(call.out.io) : call.out.io[i] = x

\* Rows of the provider's family whose name is the typed name ignoring case,
\* and those whose name contains it ignoring case
ExactRows ==
    {r \in db : r.is_cs2 = CallCs2 /\ Lower(r.name) = Lower(call.name)}
SubstringRows ==
    {r \in db : r.is_cs2 = CallCs2
                /\ \E i \in 0..(Len(r.name) - Len(call.name)) :
                      Lower(SubSeq(r.name, i + 1, i + Len(call.name)))
                        = Lower(call.name)}

\* A letter, a digit or the underscore
IsWordChar(c) ==
    \/ (65 <= Ord(c) /\ Ord(c) <= 90)
    \/ (97 <= Ord(c) /\ Ord(c) <= 122)
    \/ (48 <= Ord(c) /\ Ord(c) <= 57)
    \/ Ord(c) = 95

\* The call returned the cached row r, by its cached name, with no request to
\* the catalog's by-name endpoint.
ResolvedTo(r) ==
    /\ call.out.kind = "ok"
    /\ call.out.map.name = r.name
    /\ ~DidIo("http_map")

SelectorsKeepCached(r) ==
    IF CallCs2
    THEN /\ call.bonus = None
         /\ \/ call.course = NoneStr
            \/ /\ r.main_course # NoneStr
               /\ Lower(call.course) = Lower(r.main_course)
    ELSE call.course = NoneStr

C2_AmbiguousCarriesCandidates ==
    (IsCall /\ NameOk(call.name) /\ ExactRows = {}
       /\ Cardinality(SubstringRows) > 1)
    => /\ call.out.kind = "APIMapAmbiguousError"
       /\ call.out.db_maps = SubstringRows
       /\ call.out.io = <<"db_get", "db_filter">>

\* C2 witness: two candidates, with a row of the same family that is none and
\* a row of the other family whose name contains the typed name too.
C2_Witness ==
    /\ IsCall /\ call.out.kind = "APIMapAmbiguousError"
    /\ Cardinality(call.out.db_maps) = 2
    /\ \E r \in db : r.is_cs2 = CallCs2 /\ r \notin call.out.db_maps
    /\ \E r \in db : r.is_cs2 # CallCs2
                     /\ Contains(Lower(r.name), Lower(call.name))

\* The by-name request was made for a name that matches no row
RemoteForUnknownName ==
    IsCall /\ NameOk(call.name) /\ SubstringRows = {} /\ DidIo("http_map")

\* C3: on both families, HTTP 404 from the by-name endpoint for a
\* name that matches no row ends in APIMapNotFoundError.
C3_NotFoundOn404 ==
    (RemoteForUnknownName /\ call.rmap.status = "404")
    => call.out.kind = "APIMapNotFoundError"

C5_OnlyWordCharsPass ==
    (IsCall /\ (call.name = <<>>
                \/ \E i \in 1..Len(call.name) : ~IsWordChar(call.name[i])))
    => (call.out.kind = "APIMapError" /\ call.out.io = <<>>)

-----------------------------------------------------------------------------
(* CS:GO get_pb *)

Types == {"TP", "PRO", "any"}

\* A record's time is a float of seconds, counted here in thirds of a
\* microsecond; timedelta(seconds=time) keeps whole microseconds, rounding to
\* the nearest.
RawTimes == 2..5
timedelta(time) == (time + 1) \div 3

Teleports == 0..2

\* One element of the records response: a well-formed record, a dict that
\* fails a field check of _record_to_pb, or a value that is no dict.
Record(kind, id, time, teleports) ==
    [kind |-> kind, id |-> id, time |-> time, teleports |-> teleports]

RecordsAt(id) ==
    {Record("ok", id, t, tp) : t \in RawTimes, tp \in Teleports}
      \cup {Record("malformed", id, None, None),
            Record("notdict", id, None, None)}

\* The response lists of at most n records; a record's id is its position.
RECURSIVE RecordLists(_)
RecordLists(n) ==
    IF n = 0 THEN {<<>>}
    ELSE LET shorter == RecordLists(n - 1)
         IN  shorter \cup {Append(l, r) : l \in {x \in shorter : Len(x) = n - 1},
                                          r \in RecordsAt(n)}

RecordsResponse(status, json, body) ==
    [status |-> status, json |-> json, body |-> body]

RecordsResponses ==
    {RecordsResponse("client_error", "none", <<>>),
     RecordsResponse("500", "none", <<>>),
     RecordsResponse("200", "notlist", <<>>)}
      \cup {RecordsResponse("200", "list", l) : l \in RecordLists(MaxRecords)}

PlaceResponse(status, place) == [status |-> status, place |-> place]

PlaceResponses ==
    {PlaceResponse("client_error", None), PlaceResponse("500", None),
     PlaceResponse("200", None), PlaceResponse("200", 1)}

PersonalBest(id, time, teleports, place) ==
    [id |-> id, time |-> time, teleports |-> teleports, place |-> place]

NoPersonalBest == PersonalBest(None, None, None, None)

PbOutcome(kind, p, io) == [kind |-> kind, pb |-> p, io |-> io]

records_for_steamid64(r) ==
    IF r.status = "client_error" THEN [kind |-> "APIConnectionError", records |-> <<>>]
    ELSE IF r.status # "200" THEN [kind |-> "APIError", records |-> <<>>]
    ELSE IF r.json # "list" THEN [kind |-> "APIError", records |-> <<>>]
    ELSE IF r.body # <<>> /\ r.body[1].kind = "notdict"
    THEN [kind |-> "APIError", records |-> <<>>]
    ELSE [kind |-> "ok", records |-> r.body]

record_to_pb(record) ==
    IF record.kind = "notdict"
    THEN [kind |-> "AttributeError", pb |-> NoPersonalBest]
    ELSE IF record.kind # "ok"
    THEN [kind |-> "APIError", pb |-> NoPersonalBest]
    ELSE [kind |-> "ok",
          pb |-> PersonalBest(record.id, timedelta(record.time),
                              record.teleports, None)]

\* [_record_to_pb(record) for record in records]: the first record that
\* fails ends the comprehension.
RECURSIVE records_to_pbs(_, _)
records_to_pbs(records, pbs) ==
    IF records = <<>> THEN [kind |-> "ok", pbs |-> pbs]
    ELSE LET c == record_to_pb(Head(records))
         IN  IF c.kind # "ok" THEN [kind |-> c.kind, pbs |-> <<>>]
             ELSE records_to_pbs(Tail(records), Append(pbs, c.pb))

\* A run-class filter that keeps every record
filter_pbs_all(pbs, tp_type) == pbs

\* Type.PRO keeps teleports == 0, Type.TP keeps truthy teleports, Type.ANY
\* keeps all.
filter_pbs(pbs, tp_type) ==
    IF tp_type = "PRO" THEN SelectSeq(pbs, LAMBDA p : p.teleports = 0)
    ELSE IF tp_type = "TP" THEN SelectSeq(pbs, LAMBDA p : p.teleports # 0)
    ELSE pbs

\* list.sort is stable: an element goes behind those already placed whose
\* key is not greater.
RECURSIVE sort_insert(_, _)
sort_insert(sorted, p) ==
    IF sorted = <<>> THEN <<p>>
    ELSE IF Head(sorted).time <= p.time
    THEN <<Head(sorted)>> \o sort_insert(Tail(sorted), p)
    ELSE <<p>> \o sorted

RECURSIVE sort_by_time(_, _)
sort_by_time(pbs, sorted) ==
    IF pbs = <<>> THEN sorted
    ELSE sort_by_time(Tail(pbs), sort_insert(sorted, Head(pbs)))

\* APIConnectionError is an APIError: get_pb catches every failure of
\* _place_for_pb and leaves place None.
place_for_pb(r) ==
    IF r.status = "client_error" THEN [kind |-> "APIConnectionError", place |-> None]
    ELSE IF r.status # "200" THEN [kind |-> "APIError", place |-> None]
    ELSE IF r.place = None THEN [kind |-> "APIError", place |-> None]
    ELSE [kind |-> "ok", place |-> r.place]

csgo_get_pb(tp_type, rrecords, rplace) ==
    LET got == records_for_steamid64(rrecords)
        conv == records_to_pbs(got.records, <<>>)
        pbs == sort_by_time(filter_pbs(conv.pbs, tp_type), <<>>)
        placed == place_for_pb(rplace)
    IN  IF got.kind # "ok"
        THEN PbOutcome(got.kind, NoPersonalBest, <<"http_records">>)
        ELSE IF conv.kind # "ok"
        THEN PbOutcome(conv.kind, NoPersonalBest, <<"http_records">>)
        ELSE IF conv.pbs = <<>>
        THEN PbOutcome("None", NoPersonalBest, <<"http_records">>)
        ELSE IF pbs = <<>>
        THEN PbOutcome("IndexError", NoPersonalBest, <<"http_records">>)
        ELSE PbOutcome("ok",
                       [pbs[1] EXCEPT !.place =
                           IF placed.kind = "ok" THEN placed.place ELSE None],
                       <<"http_records", "http_place">>)

-----------------------------------------------------------------------------
(* CS2 get_pb *)

\* One element of "values" in an answer of api.cs2kz.org/records: a record
\* with the fields _record_to_pb reads (its ranks and points may be null)
\* and the map and course names get_latest reads (mapOk), a dict that fails
\* another field check of _record_to_pb, or a value that is no dict.
Cs2Record(kind, id, time, teleports, nub_rank, pro_rank, pointsOk, mapOk) ==
    [kind |-> kind, id |-> id, time |-> time, teleports |-> teleports,
     nub_rank |-> nub_rank, pro_rank |-> pro_rank, pointsOk |-> pointsOk,
     mapOk |-> mapOk]

Cs2Ranks == {None, 1}

Cs2Records ==
    {Cs2Record("ok", 1, 2, tp, n, p, ok, m) :
        tp \in {0, 1}, n \in Cs2Ranks, p \in Cs2Ranks, ok \in BOOLEAN,
        m \in BOOLEAN}
      \cup {Cs2Record("malformed", 1, None, None, None, None, FALSE, TRUE),
            Cs2Record("notdict", 1, None, None, None, None, FALSE, TRUE)}

\* An answer of api.cs2kz.org/records: the status, what the JSON body is
\* ("notdict", a dict whose "values" is no list, a dict with the list)
TopResponse(status, json, values) ==
    [status |-> status, json |-> json, values |-> values]

TopResponses ==
    {TopResponse("client_error", "none", <<>>),
     TopResponse("500", "none", <<>>),
     TopResponse("200", "notdict", <<>>),
     TopResponse("200", "notlist", <<>>),
     TopResponse("200", "list", <<>>)}
      \cup {TopResponse("200", "list", <<r>>) : r \in Cs2Records}

\* _top_record: the first record of the answer, None when it has none
top_record(r) ==
    IF r.status = "client_error"
    THEN [kind |-> "APIConnectionError", records |-> <<>>]
    ELSE IF r.status # "200" THEN [kind |-> "APIError", records |-> <<>>]
    ELSE IF r.json # "list" THEN [kind |-> "APIError", records |-> <<>>]
    ELSE IF r.values # <<>> /\ r.values[1].kind = "notdict"
    THEN [kind |-> "APIError", records |-> <<>>]
    ELSE IF r.values = <<>> THEN [kind |-> "None", records |-> <<>>]
    ELSE [kind |-> "ok", records |-> <<r.values[1]>>]

\* _record_to_pb of cs2.py: points and place are read from the record, the
\* pro pair for a run without teleports and the nub pair otherwise.
cs2_record_to_pb(record) ==
    LET place == IF record.teleports = 0 THEN record.pro_rank
                 ELSE record.nub_rank
    IN  IF record.kind # "ok"
        THEN [kind |-> "APIError", pb |-> NoPersonalBest]
        ELSE IF ~record.pointsOk \/ place = None
        THEN [kind |-> "APIError", pb |-> NoPersonalBest]
        ELSE [kind |-> "ok",
              pb |-> PersonalBest(record.id, timedelta(record.time),
                                  record.teleports, place)]

cs2_get_pb(tp_type, rtop) ==
    LET got == top_record(rtop)
        conv == cs2_record_to_pb(got.records[1])
    IN  IF got.kind # "ok"
        THEN PbOutcome(got.kind, NoPersonalBest, <<"http_records">>)
        ELSE PbOutcome(conv.kind, conv.pb, <<"http_records">>)

\* A get_wrs that asks for the run without teleports whatever the first
\* record's pro_rank
cs2_get_wrs_always(rtop, rpro) ==
    LET got == top_record(rtop)
        conv == cs2_record_to_pb(got.records[1])
        pgot == top_record(rpro)
        pconv == cs2_record_to_pb(pgot.records[1])
        both == <<"http_records", "http_records_pro">>
    IN  IF got.kind # "ok" \/ conv.kind # "ok"
        THEN [kind |-> IF got.kind = "None" THEN "ok" ELSE "APIError",
              pbs |-> <<>>, io |-> <<"http_records">>]
        ELSE IF pgot.kind # "ok" \/ pconv.kind # "ok"
        THEN [kind |-> "ok", pbs |-> <<conv.pb>>, io |-> both]
        ELSE [kind |-> "ok", pbs |-> <<conv.pb, pconv.pb>>, io |-> both]

\* CS2API.get_wrs: the fastest record of the map and, when that record has
\* no pro_rank, the fastest record without teleports.  The result is the
\* list returned or the exception raised, and the requests made.
cs2_get_wrs(rtop, rpro) ==
    LET got == top_record(rtop)
        conv == cs2_record_to_pb(got.records[1])
        pgot == top_record(rpro)
        pconv == cs2_record_to_pb(pgot.records[1])
        one == <<"http_records">>
        both == <<"http_records", "http_records_pro">>
        Wrs(kind, pbs, io) == [kind |-> kind, pbs |-> pbs, io |-> io]
    IN  IF got.kind = "None" THEN Wrs("ok", <<>>, one)
        ELSE IF got.kind # "ok" THEN Wrs(got.kind, <<>>, one)
        ELSE IF conv.kind # "ok" THEN Wrs(conv.kind, <<>>, one)
        ELSE IF got.records[1].pro_rank # None THEN Wrs("ok", <<conv.pb>>, one)
        ELSE IF pgot.kind = "None" THEN Wrs("ok", <<conv.pb>>, both)
        ELSE IF pgot.kind # "ok" THEN Wrs(pgot.kind, <<>>, both)
        ELSE IF pconv.kind # "ok" THEN Wrs(pconv.kind, <<>>, both)
        ELSE Wrs("ok", <<conv.pb, pconv.pb>>, both)

-----------------------------------------------------------------------------
(* CS:GO get_latest *)

\* created_on strings: digits in fields of fixed width, as the records
\* service writes its dates
Dates == {<<"0", "1">>, <<"1", "0">>, <<"1", "1">>}

DigitOrd(c) == CASE c = "0" -> 48 [] c = "1" -> 49 [] OTHER -> 0

\* Python's a < b on strings: by code point, a proper prefix first
RECURSIVE StrLess(_, _)
StrLess(a, b) ==
    IF b = <<>> THEN FALSE
    ELSE IF a = <<>> THEN TRUE
    ELSE IF DigitOrd(Head(a)) # DigitOrd(Head(b))
    THEN DigitOrd(Head(a)) < DigitOrd(Head(b))
    ELSE StrLess(Tail(a), Tail(b))

\* An element of a records answer as get_latest reads it: "ok", "nomap"
\* (map_name no str), "nodate" (no created_on key), "nulldate" (created_on
\* null) or "notdict".
LatestRecord(kind, id, teleports, created_on) ==
    [kind |-> kind, id |-> id, time |-> 2, teleports |-> teleports,
     created_on |-> created_on, map_name |-> <<"a", "b">>]

\* The records of the has_teleports=true list have ids 11, 12, ..., those of
\* the has_teleports=false list 21, 22, ...
LatestRecordsAt(tp_type, i) ==
    LET id == (IF tp_type = "TP" THEN 10 ELSE 20) + i
        teleports == IF tp_type = "TP" THEN 1 ELSE 0
    IN  {LatestRecord("ok", id, teleports, d) : d \in Dates}
          \cup {LatestRecord("nomap", id, teleports, <<"1", "1">>),
                LatestRecord("nodate", id, teleports, <<>>),
                LatestRecord("nulldate", id, teleports, NoneStr),
                LatestRecord("notdict", id, teleports, <<>>)}

RECURSIVE LatestLists(_, _)
LatestLists(tp_type, n) ==
    IF n = 0 THEN {<<>>}
    ELSE LET shorter == LatestLists(tp_type, n - 1)
         IN  shorter \cup
               {Append(l, r) : l \in {x \in shorter : Len(x) = n - 1},
                               r \in LatestRecordsAt(tp_type, n)}

LatestResponses(tp_type) ==
    {RecordsResponse("client_error", "none", <<>>)}
      \cup {RecordsResponse("200", "list", l) :
              l \in LatestLists(tp_type, MaxRecords)}

\* A sort key read from a field the records do not have
sort_key_missing(record) == <<>>

\* sort_key: i.get('created_on', '')
sort_key(record) == record.created_on

\* records.sort(key=sort_key, reverse=True): descending, and stable, so that
\* an element goes behind those already placed whose key is not less.
RECURSIVE latest_insert(_, _)
latest_insert(sorted, r) ==
    IF sorted = <<>> THEN <<r>>
    ELSE IF ~StrLess(sort_key(Head(sorted)), sort_key(r))
    THEN <<Head(sorted)>> \o latest_insert(Tail(sorted), r)
    ELSE <<r>> \o sorted

RECURSIVE latest_sort(_, _)
latest_sort(records, sorted) ==
    IF records = <<>> THEN sorted
    ELSE latest_sort(Tail(records), latest_insert(sorted, Head(records)))

NoRecords == [kind |-> "ok", records |-> <<>>]

\* get_latest up to record = records[0]: the two fetches, the merge and the
\* sort.  The keys are computed for every element before any is compared: a
\* non-dict has no .get; a null created_on cannot be compared with a str.
latest_pick(tp_type, rtp, rpro) ==
    LET tps == IF tp_type \in {"TP", "any"} THEN records_for_steamid64(rtp)
               ELSE NoRecords
        pros == IF tp_type \in {"PRO", "any"} THEN records_for_steamid64(rpro)
                ELSE NoRecords
        records == tps.records \o pros.records
        Has(kind) == \E i \in 1..Len(records) : records[i].kind = kind
    IN  IF tps.kind # "ok" THEN [kind |-> tps.kind, records |-> <<>>]
        ELSE IF pros.kind # "ok" THEN [kind |-> pros.kind, records |-> <<>>]
        ELSE IF records = <<>> THEN [kind |-> "None", records |-> <<>>]
        ELSE IF Has("notdict")
        THEN [kind |-> "AttributeError", records |-> <<>>]
        ELSE IF Len(records) > 1 /\ Has("nulldate")
        THEN [kind |-> "TypeError", records |-> <<>>]
        ELSE [kind |-> "ok", records |-> latest_sort(records, <<>>)]

\* get_latest from record = records[0] on
csgo_latest_pb(table, mode, record, rmap, rvnl, host, rplace) ==
    LET m == csgo_get_map(table, mode, record.map_name, NoneStr, None, rmap,
                          rvnl, host)
        conv == record_to_pb(record)
        placed == place_for_pb(rplace)
    IN  IF record.kind = "nomap"
        THEN PbOutcome("APIError", NoPersonalBest, <<"http_records">>)
        ELSE IF m.kind \in {"APIMapError", "APIMapNotFoundError",
                            "APIMapAmbiguousError"}
        THEN PbOutcome("APIError", NoPersonalBest, <<"http_records">> \o m.io)
        ELSE IF m.kind # "ok"
        THEN PbOutcome(m.kind, NoPersonalBest, <<"http_records">> \o m.io)
        ELSE IF conv.kind # "ok"
        THEN PbOutcome(conv.kind, NoPersonalBest, <<"http_records">> \o m.io)
        ELSE PbOutcome("ok",
                       [conv.pb EXCEPT !.place =
                           IF placed.kind = "ok" THEN placed.place ELSE None],
                       <<"http_records">> \o m.io \o <<"http_place">>)

csgo_get_latest(table, mode, tp_type, rtp, rpro, rmap, rvnl, host, rplace) ==
    LET pick == latest_pick(tp_type, rtp, rpro)
    IN  IF pick.kind # "ok"
        THEN PbOutcome(pick.kind, NoPersonalBest, <<"http_records">>)
        ELSE csgo_latest_pb(table, mode, pick.records[1], rmap, rvnl, host,
                            rplace)

-----------------------------------------------------------------------------
(* CS2 get_latest *)

cs2_get_latest(table, mode, tp_type, rtop, rmap, host) ==
    LET got == top_record(rtop)
        record == got.records[1]
        m == cs2_get_map(table, mode, <<"A", "b">>, Main, None, rmap, host)
        conv == cs2_record_to_pb(record)
    IN  IF got.kind # "ok"
        THEN PbOutcome(got.kind, NoPersonalBest, <<"http_records">>)
        ELSE IF ~record.mapOk
        THEN PbOutcome("APIError", NoPersonalBest, <<"http_records">>)
        ELSE IF m.kind # "ok"
        THEN PbOutcome(m.kind, NoPersonalBest, <<"http_records">> \o m.io)
        ELSE PbOutcome(conv.kind, conv.pb, <<"http_records">> \o m.io)

-----------------------------------------------------------------------------
(* One get_pb call at a time *)

PbCall(tp_type, rrecords, rplace, out) ==
    [op |-> "get_pb", tp_type |-> tp_type, rrecords |-> rrecords,
     rplace |-> IF \E i \in 1..Len(out.io) : out.io[i] = "http_place"
                THEN rplace ELSE Unused,
     out |-> out]

InitPb ==
    /\ db = {}
    /\ up = Upstream("none", Response("error", <<>>), Response("error", <<>>),
                     "down")
    /\ run = 0
    /\ before = db
    /\ res = NoResult
    /\ res1 = NoResult
    /\ call = NoCall
    /\ pb = NoPb
    /\ prof = NoProf
    /\ prev = NoProf.profile

GetPb ==
    /\ pb = NoPb
    /\ \E tp_type \in Types, rrecords \in RecordsResponses,
          rplace \in PlaceResponses :
         pb' = PbCall(tp_type, rrecords, rplace,
                      csgo_get_pb(tp_type, rrecords, rplace))
    /\ UNCHANGED <<db, up, run, before, res, res1, call, prof, prev>>

GetPbCs2 ==
    /\ pb = NoPb
    /\ \E mode \in {"CKZ", "VNL2"}, tp_type \in Types, rtop \in TopResponses :
         pb' = [op |-> "cs2_get_pb", mode |-> mode, tp_type |-> tp_type,
                rtop |-> rtop, out |-> cs2_get_pb(tp_type, rtop)]
    /\ UNCHANGED <<db, up, run, before, res, res1, call, prof, prev>>

\* The by-name and place answers a get_latest call can meet
LatestMapResponses ==
    {r \in CsgoMapResponses :
        r.status = "client_error" \/ (r.status = "200" /\ r.json # "notdict")}

LatestCs2MapResponses ==
    {Cs2MapResponse("404", "notdict", FALSE, <<>>),
     Cs2MapResponse("200", "dict", TRUE, <<CourseMain, CourseAb>>)}

HasIo(out, x) == \E i \in 1..Len(out.io) : out.io[i] = x

LatestCall(mode, tp_type, rtp, rpro, rmap, rplace, out) ==
    [op |-> "get_latest", mode |-> mode, tp_type |-> tp_type, rtp |-> rtp,
     rpro |-> rpro,
     rmap |-> IF HasIo(out, "http_map") THEN rmap ELSE Unused,
     rplace |-> IF HasIo(out, "http_place") THEN rplace ELSE Unused,
     out |-> out]

GetLatestCsgo ==
    /\ pb = NoPb
    /\ \E tp_type \in Types :
       \E rtp \in IF tp_type \in {"TP", "any"} THEN LatestResponses("TP")
                  ELSE {Unused} :
       \E rpro \in IF tp_type = "PRO" \/ (tp_type = "any" /\ rtp.status = "200")
                   THEN LatestResponses("PRO") ELSE {Unused} :
       \E rmap \in IF latest_pick(tp_type, rtp, rpro).kind = "ok"
                   THEN LatestMapResponses ELSE {Unused},
          rplace \in IF latest_pick(tp_type, rtp, rpro).kind = "ok"
                     THEN PlaceResponses ELSE {Unused} :
         pb' = LatestCall("KZT", tp_type, rtp, rpro, rmap, rplace,
                          csgo_get_latest(db, "KZT", tp_type, rtp, rpro, rmap,
                                          Unused, "up", rplace))
    /\ UNCHANGED <<db, up, run, before, res, res1, call, prof, prev>>

GetLatestCs2 ==
    /\ pb = NoPb
    /\ \E mode \in {"CKZ", "VNL2"}, tp_type \in Types, rtop \in TopResponses,
          rmap \in LatestCs2MapResponses :
         LET out == cs2_get_latest(db, mode, tp_type, rtop, rmap, "up")
         IN  pb' = [op |-> "cs2_get_latest", mode |-> mode,
                    tp_type |-> tp_type, rtop |-> rtop,
                    rmap |-> IF HasIo(out, "http_map") THEN rmap ELSE Unused,
                    out |-> out]
    /\ UNCHANGED <<db, up, run, before, res, res1, call, prof, prev>>

\* get_wrs on CS2: the record of the second answer has id 2
GetWrsCs2 ==
    /\ pb = NoPb
    /\ \E mode \in {"CKZ", "VNL2"}, rtop \in TopResponses, r2 \in TopResponses :
         LET rpro == [r2 EXCEPT !.values =
                         [i \in DOMAIN r2.values |->
                             [r2.values[i] EXCEPT !.id = 2]]]
             out == cs2_get_wrs(rtop, rpro)
         IN  pb' = [op |-> "cs2_get_wrs", mode |-> mode, rtop |-> rtop,
                    rpro |-> IF HasIo(out, "http_records_pro") THEN rpro
                             ELSE Unused,
                    out |-> out]
    /\ UNCHANGED <<db, up, run, before, res, res1, call, prof, prev>>

\* The caller has the outcome; the next call may start.
GetPbReturn ==
    /\ pb # NoPb
    /\ pb' = NoPb
    /\ UNCHANGED <<db, up, run, before, res, res1, call, prof, prev>>

NextPb ==
    \/ GetPb \/ GetPbCs2 \/ GetLatestCsgo \/ GetLatestCs2 \/ GetWrsCs2
    \/ GetPbReturn

SpecPb == InitPb /\ [][NextPb]_vars

-----------------------------------------------------------------------------
(* Claims about get_pb (SpecPb) *)

IsPbCall == pb.op = "get_pb"

\* The records of the upstream response, in its order
ResponseRecords ==
    IF pb.rrecords.status = "200" /\ pb.rrecords.json = "list"
    THEN pb.rrecords.body ELSE <<>>

\* The record qualifies for the requested run class.
Qualifies(r) ==
    /\ r.kind = "ok"
    /\ pb.tp_type = "TP" => r.teleports > 0
    /\ pb.tp_type = "PRO" => r.teleports = 0

\* C10: when the response holds well-formed records of which at least one
\* qualifies for the run class asked for, get_pb returns a qualifying record
\* of the response whose elapsed time (in whole microseconds, as a
\* PersonalBest carries it) is least among the qualifying records, and of the
\* records with that least time the one that comes first in the response;
\* its upstream time exceeds no qualifying record's by a microsecond.
C10_PbIsFirstMinimum ==
    IsPbCall =>
      LET R == ResponseRecords
          Q == {i \in 1..Len(R) : Qualifies(R[i])}
      IN  /\ (Q # {} /\ \A i \in 1..Len(R) : R[i].kind = "ok")
               => pb.out.kind = "ok"
          /\ pb.out.kind = "ok" =>
               \E i \in Q :
                  /\ pb.out.pb.id = R[i].id
                  /\ pb.out.pb.teleports = R[i].teleports
                  /\ pb.out.pb.time = (R[i].time + 1) \div 3
                  /\ \A j \in Q :
                       /\ pb.out.pb.time <= (R[j].time + 1) \div 3
                       /\ j < i => pb.out.pb.time < (R[j].time + 1) \div 3
                       /\ R[i].time < R[j].time + 3

\* C10 witness: two qualifying records that tie once held in microseconds,
\* the later one with the lesser upstream time; the first is returned.
C10_Witness ==
    /\ IsPbCall /\ pb.out.kind = "ok" /\ pb.tp_type = "TP"
    /\ Len(ResponseRecords) = 2
    /\ \A i \in 1..2 : Qualifies(ResponseRecords[i])
    /\ ResponseRecords[1].time > ResponseRecords[2].time
    /\ pb.out.pb.id = ResponseRecords[1].id

\* C11: when none of the records the upstream answers with qualifies for the
\* run class asked for, get_pb returns None: on CS:GO when the response holds
\* well-formed records, none of them of the class; on CS2 when the answer to
\* the query for the class holds no record.
C11_NoneWhenNoneQualifies ==
    /\ (IsPbCall /\ pb.rrecords.status = "200" /\ pb.rrecords.json = "list"
          /\ \A i \in 1..Len(ResponseRecords) :
                ResponseRecords[i].kind = "ok" /\ ~Qualifies(ResponseRecords[i]))
         => pb.out.kind = "None"
    /\ (pb.op = "cs2_get_pb" /\ pb.rtop.status = "200" /\ pb.rtop.json = "list"
          /\ pb.rtop.values = <<>>)
         => pb.out.kind = "None"

\* The first record of a CS2 answer, when it is one that passes every check
\* made on fields other than its rank
Cs2SoundRecord ==
    /\ pb.op \in {"cs2_get_pb", "cs2_get_latest"}
    /\ pb.rtop.status = "200" /\ pb.rtop.json = "list" /\ pb.rtop.values # <<>>
    /\ pb.rtop.values[1].kind = "ok"
    /\ pb.rtop.values[1].pointsOk /\ pb.rtop.values[1].mapOk
    /\ pb.op = "cs2_get_latest" => pb.rmap.status = "200"

\* C12: get_pb and get_latest still return the record, with place None, when
\* the place cannot be had: on CS:GO when the place request fails or answers
\* with no int, on CS2 when the record carries no rank for its run class.
C12_PlaceIsBestEffort ==
    /\ (pb.op \in {"get_pb", "get_latest"} /\ HasIo(pb.out, "http_place")
          /\ ~(pb.rplace.status = "200" /\ pb.rplace.place # None))
         => (pb.out.kind = "ok" /\ pb.out.pb.place = None)
    /\ (Cs2SoundRecord
          /\ (IF pb.rtop.values[1].teleports = 0
              THEN pb.rtop.values[1].pro_rank ELSE pb.rtop.values[1].nub_rank)
               = None)
         => (pb.out.kind = "ok" /\ pb.out.pb.place = None)

\* The lists get_latest fetched, merged: the has_teleports=true list, then
\* the has_teleports=false list
MergedRecords ==
    (IF pb.tp_type \in {"TP", "any"} /\ pb.rtp.status = "200"
     THEN pb.rtp.body ELSE <<>>)
      \o (IF pb.tp_type \in {"PRO", "any"} /\ pb.rpro.status = "200"
          THEN pb.rpro.body ELSE <<>>)

\* The record carries a created_on string
Dated(r) == r.kind \in {"ok", "nomap"}

\* The instant the record's created_on names
Instant(r) == 10 * (IF r.created_on[1] = "1" THEN 1 ELSE 0)
                + (IF r.created_on[2] = "1" THEN 1 ELSE 0)

\* C13: CS:GO get_latest fetches the list of the run class asked for (both
\* lists for ANY, the teleport list first); the record it returns is one of
\* that merged list, no record of the list was submitted later, and every
\* record before it in the list was submitted earlier.  It returns None when
\* the lists are empty and a record when all records are well-formed and the
\* map lookup succeeds.
C13_LatestIsFirstNewest ==
    (pb.op = "get_latest" /\ (pb.tp_type = "PRO" \/ pb.rtp.status = "200")
       /\ (pb.tp_type = "TP" \/ pb.rpro.status = "200"))
    => LET M == MergedRecords IN
       /\ M = <<>> <=> pb.out.kind = "None"
       /\ (M # <<>> /\ (\A i \in 1..Len(M) : M[i].kind = "ok")
             /\ pb.rmap.status = "200" /\ pb.rmap.json = "dict"
             /\ pb.rmap.difficulty # None)
            => pb.out.kind = "ok"
       /\ pb.out.kind = "ok" =>
            \E i \in 1..Len(M) :
               /\ M[i].id = pb.out.pb.id /\ M[i].kind = "ok"
               /\ \A j \in 1..Len(M) :
                    Dated(M[j]) =>
                      /\ Instant(M[j]) <= Instant(M[i])
                      /\ j < i => Instant(M[j]) < Instant(M[i])

\* C13 witness: run class ANY, the newest submission time shared by a record
\* of the teleport list and a record of the other list, an older record
\* ahead of them; the one of the teleport list is returned.
C13_Witness ==
    /\ pb.op = "get_latest" /\ pb.tp_type = "any" /\ pb.out.kind = "ok"
    /\ pb.rtp.status = "200" /\ pb.rpro.status = "200"
    /\ Len(pb.rtp.body) = 2 /\ Len(pb.rpro.body) = 1
    /\ \A i \in 1..Len(MergedRecords) : MergedRecords[i].kind = "ok"
    /\ Instant(pb.rtp.body[1]) < Instant(pb.rtp.body[2])
    /\ pb.rpro.body[1].created_on = pb.rtp.body[2].created_on
    /\ pb.out.pb.id = pb.rtp.body[2].id

-----------------------------------------------------------------------------
(* get_profile *)

MaxDelta == 1

\* The Rank enumeration, in its order
Rank ==
    <<"Unknown", "New", "Beginner-", "Beginner", "Beginner+", "Amateur-",
      "Amateur", "Amateur+", "Casual-", "Casual", "Casual+", "Regular-",
      "Regular", "Regular+", "Skilled-", "Skilled", "Skilled+", "Expert-",
      "Expert", "Expert+", "Semipro", "Pro", "Master", "Legend">>

\* A threshold list whose labels are not in the order of its thresholds
csgo_thresholds_swapped(mode) ==
    <<<<1000000, "Master">>, <<800000, "Legend">>, <<1, "Beginner-">>>>

\* CS:GO thresholds: the mode's list, then the list all modes share
csgo_thresholds(mode) ==
    (CASE mode = "VNL" ->
            <<<<600000, "Legend">>, <<400000, "Master">>, <<300000, "Pro">>,
              <<250000, "Semipro">>, <<200000, "Expert+">>,
              <<180000, "Expert">>, <<160000, "Expert-">>,
              <<140000, "Skilled+">>>>
       [] mode = "SKZ" ->
            <<<<800000, "Legend">>, <<500000, "Master">>, <<400000, "Pro">>,
              <<300000, "Semipro">>, <<250000, "Expert+">>,
              <<230000, "Expert">>, <<200000, "Expert-">>,
              <<150000, "Skilled+">>>>
       [] OTHER ->
            <<<<1000000, "Legend">>, <<800000, "Master">>, <<600000, "Pro">>,
              <<400000, "Semipro">>, <<250000, "Expert+">>,
              <<230000, "Expert">>, <<200000, "Expert-">>,
              <<150000, "Skilled+">>>>)
      \o <<<<120000, "Skilled">>, <<100000, "Skilled-">>,
           <<80000, "Regular+">>, <<70000, "Regular">>, <<60000, "Regular-">>,
           <<40000, "Casual+">>, <<30000, "Casual">>, <<20000, "Casual-">>,
           <<10000, "Amateur+">>, <<5000, "Amateur">>, <<2000, "Amateur-">>,
           <<1000, "Beginner+">>, <<500, "Beginner">>, <<1, "Beginner-">>>>

\* CS2 thresholds, in points (rating / 10)
cs2_thresholds ==
    <<<<37500, "Legend">>, <<35000, "Master">>, <<30000, "Pro">>,
      <<25000, "Semipro">>, <<20000, "Expert">>, <<15000, "Skilled">>,
      <<10000, "Regular">>, <<5000, "Casual">>, <<0, "Beginner">>>>

\* The walk with a strict comparison
RECURSIVE rank_walk_strict(_, _, _, _)
rank_walk_strict(points, scale, thresholds, rank) ==
    IF thresholds = <<>> THEN rank
    ELSE IF points > scale * Head(thresholds)[1] THEN Head(thresholds)[2]
    ELSE rank_walk_strict(points, scale, Tail(thresholds),
                          Head(thresholds)[2])

\* for threshold, rank in thresholds: if points >= threshold: break
\* The loop variable is the result: the label of the first threshold met,
\* that of the last entry when none is met, the initial rank for an empty
\* list.  points is counted in 1/scale of a point.
RECURSIVE rank_walk(_, _, _, _)
rank_walk(points, scale, thresholds, rank) ==
    IF thresholds = <<>> THEN rank
    ELSE IF points >= scale * Head(thresholds)[1] THEN Head(thresholds)[2]
    ELSE rank_walk(points, scale, Tail(thresholds), Head(thresholds)[2])

\* Profile (url left out); name is NoneStr for None; average is None for
\* None
Profile(name, mode, rank, points, average) ==
    [name |-> name, mode |-> mode, rank |-> rank, points |-> points,
     average |-> average]

\* The result of a get_profile call: "ok" with the profile, or the
\* exception raised.  steam is name_for_steamid64's outcome.
ProfOutcome(kind, profile) == [kind |-> kind, profile |-> profile]

\* Answers of player_ranks: rows is the JSON list; a row is a dict with
\* points (None: no int), average ("float" or not) and player_name, or no
\* dict.
RanksResponses(mode) ==
    LET T == csgo_thresholds(mode)
        Points == {-1, 0} \cup {T[i][1] + d : i \in DOMAIN T,
                                               d \in (-MaxDelta)..MaxDelta}
        RankRow(kind, points, average) ==
            [kind |-> kind, points |-> points, average |-> average,
             player_name |-> <<"p">>]
        Rows == {RankRow("dict", p, "float") : p \in Points}
                  \cup {RankRow("dict", None, "float"), RankRow("dict", 500, "int"),
                        RankRow("notdict", None, "none")}
        Answer(status, json, rows) ==
            [status |-> status, json |-> json, rows |-> rows]
    IN  {Answer("client_error", "none", <<>>), Answer("500", "none", <<>>),
         Answer("200", "notlist", <<>>), Answer("200", "list", <<>>)}
          \cup {Answer("200", "list", <<row>>) : row \in Rows}

csgo_get_profile(mode, r, steam) ==
    LET player_name == IF steam = "ok" THEN <<"s">> ELSE NoneStr
        info == r.rows[1]
    IN  IF r.status = "client_error"
        THEN ProfOutcome("APIConnectionError", NoProf.profile)
        ELSE IF r.status # "200" \/ r.json # "list"
        THEN ProfOutcome("APIError", NoProf.profile)
        ELSE IF r.rows # <<>> /\ info.kind # "dict"
        THEN ProfOutcome("APIError", NoProf.profile)
        ELSE IF r.rows = <<>>
        THEN ProfOutcome("ok", Profile(player_name, mode, "New", 0, 0))
        ELSE IF info.points = None \/ info.average # "float"
        THEN ProfOutcome("APIError", NoProf.profile)
        ELSE ProfOutcome("ok",
                 Profile(info.player_name, mode,
                         rank_walk(info.points, 1, csgo_thresholds(mode),
                                   "New"),
                         info.points, 1))

\* Answers of players/<id>/profile: rating is the JSON number in tenths of
\* a point ("float" or not a float)
ProfileResponses ==
    LET T == cs2_thresholds
        Ratings == {-10, -1, 0, 5} \cup {10 * T[i][1] + d : i \in DOMAIN T,
                                           d \in (-MaxDelta)..MaxDelta}
        Answer(status, json, kind, rating) ==
            [status |-> status, json |-> json, kind |-> kind,
             rating |-> rating, name |-> <<"p">>]
    IN  {Answer("client_error", "none", "none", 0), Answer("404", "none", "none", 0),
         Answer("500", "none", "none", 0), Answer("200", "notdict", "none", 0),
         Answer("200", "dict", "int", 0), Answer("200", "dict", "none", 0)}
          \cup {Answer("200", "dict", "float", x) : x \in Ratings}

cs2_get_profile(mode, r, steam) ==
    LET player_name == IF steam = "ok" THEN <<"s">> ELSE NoneStr
        \* int(rating / 10) truncates towards zero
        int == IF r.rating >= 0 THEN r.rating \div 10
               ELSE 0 - ((0 - r.rating) \div 10)
    IN  IF r.status = "client_error"
        THEN ProfOutcome("APIConnectionError", NoProf.profile)
        ELSE IF r.status = "404"
        THEN ProfOutcome("ok", Profile(player_name, mode, "Unknown", 0, None))
        ELSE IF r.status # "200" \/ r.json # "dict" \/ r.kind # "float"
        THEN ProfOutcome("APIError", NoProf.profile)
        ELSE ProfOutcome("ok",
                 Profile(r.name, mode,
                         IF r.rating = 0 THEN "New"
                         ELSE rank_walk(r.rating, 10, cs2_thresholds,
                                        "Beginner"),
                         int, None))

InitProfile ==
    /\ db = {}
    /\ up = Upstream("none", Response("error", <<>>), Response("error", <<>>),
                     "down")
    /\ run = 0
    /\ before = db
    /\ res = NoResult
    /\ res1 = NoResult
    /\ call = NoCall
    /\ pb = NoPb
    /\ prof = NoProf
    /\ prev = NoProf.profile

\* name_for_steamid64 is called only where no row / no profile came back
GetProfileCsgo ==
    /\ prof = NoProf
    /\ \E mode \in {"KZT", "SKZ", "VNL"} :
       \E r \in RanksResponses(mode) :
       \E steam \in IF r.status = "200" /\ r.json = "list" /\ r.rows = <<>>
                    THEN {"ok", "SteamError"} ELSE {"unused"} :
          prof' = [op |-> "get_profile", mode |-> mode, r |-> r,
                   steam |-> steam, out |-> csgo_get_profile(mode, r, steam)]
    /\ UNCHANGED <<db, up, run, before, res, res1, call, pb, prev>>

GetProfileCs2 ==
    /\ prof = NoProf
    /\ \E mode \in {"CKZ", "VNL2"} :
       \E r \in ProfileResponses :
       \E steam \in IF r.status = "404"
                    THEN {"ok", "SteamError"} ELSE {"unused"} :
          prof' = [op |-> "cs2_get_profile", mode |-> mode, r |-> r,
                   steam |-> steam, out |-> cs2_get_profile(mode, r, steam)]
    /\ UNCHANGED <<db, up, run, before, res, res1, call, pb, prev>>

\* The call returns; a later call may follow
GetProfileReturn ==
    /\ prof # NoProf
    /\ prof' = NoProf
    /\ prev' = IF prof.out.kind = "ok" THEN prof.out.profile ELSE prev
    /\ UNCHANGED <<db, up, run, before, res, res1, call, pb>>

NextProfile == GetProfileCsgo \/ GetProfileCs2 \/ GetProfileReturn

SpecProfile == InitProfile /\ [][NextProfile]_vars

\* A get_profile call has returned a profile
IsProfile == prof # NoProf /\ prof.out.kind = "ok"

\* C14: a holder without rank data (CS:GO: an empty player_ranks list; CS2:
\* 404 from the profile service) gets a profile with 0 points and tier New,
\* named by the Steam lookup, or unnamed when that lookup fails.
C14_NoRecordsIsNew ==
    ((prof.op = "get_profile" /\ prof.r.status = "200" /\ prof.r.json = "list"
        /\ prof.r.rows = <<>>)
       \/ (prof.op = "cs2_get_profile" /\ prof.r.status = "404"))
    => /\ prof.out.kind = "ok"
       /\ prof.out.profile.points = 0
       /\ prof.out.profile.rank = "New"
       /\ prof.out.profile.name = IF prof.steam = "ok" THEN <<"s">>
                                  ELSE NoneStr

\* C15: a profile with 0 total points has the tier New.
C15_ZeroPointsIsNew ==
    (IsProfile /\ prof.out.profile.points = 0)
    => prof.out.profile.rank = "New"

\* The threshold list of the call's mode
ModeThresholds ==
    IF prof.op = "get_profile" THEN csgo_thresholds(prof.mode)
    ELSE cs2_thresholds

\* C16: a profile with a positive total has the label of the highest
\* threshold of its mode that the total meets or exceeds; so a total equal
\* to a threshold has that threshold's label and a total one below it the
\* label of the next lower threshold.
C16_HighestThresholdMet ==
    (IsProfile /\ prof.out.profile.points > 0)
    => LET T == ModeThresholds
           p == prof.out.profile.points
       IN  \E i \in DOMAIN T :
              /\ T[i][1] <= p
              /\ prof.out.profile.rank = T[i][2]
              /\ \A j \in DOMAIN T : T[j][1] <= p => T[j][1] <= T[i][1]

\* C16 witness: in one mode, a total one below a threshold got the next
\* lower label and then a total equal to the threshold got its label.
C16_Witness ==
    /\ IsProfile /\ prev.mode = prof.mode
    /\ \E i \in 1..(Len(ModeThresholds) - 1) :
          /\ prof.out.profile.points = ModeThresholds[i][1]
          /\ prof.out.profile.rank = ModeThresholds[i][2]
          /\ prev.points = ModeThresholds[i][1] - 1
          /\ prev.rank = ModeThresholds[i + 1][2]

\* The place of a label in the order New < Beginner- < ... < Legend
RankIndex(rank) == CHOOSE i \in DOMAIN Rank : Rank[i] = rank

\* C17: of two profiles of one mode with non-negative totals, the one
\* with the greater total never has the lower tier.
C17_RankMonotonic ==
    (IsProfile /\ prev.mode = prof.mode /\ prev.points >= 0
       /\ prof.out.profile.points >= 0)
    => /\ prev.points < prof.out.profile.points
            => RankIndex(prev.rank) <= RankIndex(prof.out.profile.rank)
       /\ prof.out.profile.points < prev.points
            => RankIndex(prof.out.profile.rank) <= RankIndex(prev.rank)

\* C17 witness: two profiles of one mode, the second with more points and
\* a higher tier than the first, whose total is positive.
C17_Witness ==
    /\ IsProfile /\ prev.mode = prof.mode
    /\ 0 < prev.points /\ prev.points < prof.out.profile.points
    /\ RankIndex(prev.rank) < RankIndex(prof.out.profile.rank)

-----------------------------------------------------------------------------
(* Further claims about get_map (SpecMap) *)

\* C18: the tier and pro_tier of a Map get_map returns are None or within
\* 1..max_tier of that Map.
C18_TiersWithinMaxTier ==
    (IsCall /\ call.out.kind = "ok")
    => /\ call.out.map.tier = None
            \/ call.out.map.tier \in 1..call.out.map.max_tier
       /\ call.out.map.pro_tier = None
            \/ call.out.map.pro_tier \in 1..call.out.map.max_tier

\* C19: get_map with the selector the family has not (CS:GO: a course;
\* CS2: a bonus) raises APIMapError, whatever the table and the upstream.
C19_UnsupportedSelectorIsMapError ==
    (IsCall /\ (IF CallCs2 THEN call.bonus # None
                ELSE call.course # NoneStr))
    => call.out.kind = "APIMapError"

\* C20: CS:GO get_map in VNL mode, when it asks the vnl service for the
\* tiers of the resolved map and that answers 404, returns a Map with tier
\* 10 and pro_tier 10.
C20_Vnl404IsTierTen ==
    (IsCall /\ call.mode = "VNL" /\ call.rvnl.status = "404")
    => /\ call.out.kind = "ok"
       /\ call.out.map.tier = 10
       /\ call.out.map.pro_tier = 10

\* C20 witness: a name no row matches, resolved by the by-name lookup, and
\* the vnl service answering 404: the Map has tier 10 and pro_tier 10.
C20_Witness ==
    /\ IsCall /\ call.mode = "VNL" /\ DidIo("http_map")
    /\ call.rvnl.status = "404"
    /\ call.out.kind = "ok" /\ call.out.map.tier = 10
    /\ call.out.map.pro_tier = 10

\* C22: a Map that CS2 get_map returns carries the pro tier of the course it
\* resolved to: the row's pro_tier (vnl_pro_tier in VNL2 mode) when the map
\* came from the table, the tier the filter's pro_tier code names when it
\* came from the maps service.
C22_Cs2ProTierIsProTier ==
    (IsCall /\ CallCs2 /\ call.out.kind = "ok")
    => IF DidIo("http_map")
       THEN \E i \in 1..Len(call.rmap.courses) :
               LET c == call.rmap.courses[i]
                   flt == IF call.mode = "VNL2" THEN c.vanilla ELSE c.classic
               IN  /\ c.name = call.out.map.course
                   /\ call.out.map.pro_tier =
                        IF flt.kind = "dict" THEN tier_num(flt.pro_tier)
                        ELSE None
       ELSE \E r \in db :
               /\ r.is_cs2 /\ r.name = call.out.map.name
               /\ call.out.map.pro_tier =
                    IF call.mode = "VNL2" THEN r.vnl_pro_tier ELSE r.pro_tier

\* C24 (as claimed): for a valid name, get_map makes the by-name request
\* exactly when no row of the family has a name that contains the typed name,
\* ignoring case; with one such row and no exact match it returns that row's
\* map without the request.
C24_RemoteIffNoMatch ==
    (IsCall /\ NameOk(call.name))
    => /\ DidIo("http_map") <=> SubstringRows = {}
       /\ (ExactRows = {} /\ Cardinality(SubstringRows) = 1)
            => \A r \in SubstringRows :
                  ~DidIo("http_map")
                  /\ (call.out.kind = "ok" => call.out.map.name = r.name)

\* The row the table reads of the call resolve to, if any
ResolvedRows ==
    IF Cardinality(ExactRows) = 1 THEN ExactRows
    ELSE IF ExactRows = {} /\ Cardinality(SubstringRows) = 1
    THEN SubstringRows ELSE {}

\* The call is a CS2 call that names a course other than the main course of
\* the row it resolved to
OtherCourse ==
    /\ CallCs2 /\ call.course # NoneStr
    /\ \E r \in ResolvedRows : /\ r.main_course # NoneStr
                               /\ Lower(call.course) # Lower(r.main_course)

\* C24 (amended): for a valid name, get_map makes the by-name request
\* exactly when no row of the family has a name that contains the typed name
\* or, on CS2, when the call names a course other than the main course of the
\* row it resolved to; with one such row, no exact match and no such course, a
\* call that returns a Map returns that row's, without the request.
C24_RemoteIffNoMatchOrOtherCourse ==
    (IsCall /\ NameOk(call.name))
    => /\ DidIo("http_map") <=> (SubstringRows = {} \/ OtherCourse)
       /\ (ExactRows = {} /\ Cardinality(SubstringRows) = 1 /\ ~OtherCourse)
            => \A r \in SubstringRows :
                  call.out.kind = "ok" => call.out.map.name = r.name

\* C24 witness: a typed name that is part of one cached name and equal to
\* none; the call read the table twice and returned that row's map with no
\* by-name request.
C24_Witness ==
    /\ IsCall /\ NameOk(call.name) /\ ExactRows = {}
    /\ Cardinality(SubstringRows) = 1
    /\ \E r \in SubstringRows : ResolvedTo(r)
    /\ DidIo("db_get") /\ DidIo("db_filter")

\* C27: a valid name equal, ignoring case, to the name of one row of the
\* family resolves to that row even when other rows' names contain it: the
\* call does not read the substring matches, never raises
\* APIMapAmbiguousError, and a Map it returns is that row's.
C27_ExactBeforeAmbiguous ==
    (IsCall /\ NameOk(call.name) /\ Cardinality(ExactRows) = 1)
    => /\ call.out.kind # "APIMapAmbiguousError"
       /\ ~DidIo("db_filter")
       /\ \A r \in ExactRows :
             call.out.kind = "ok" => call.out.map.name = r.name

\* C27 witness: the typed name equals one cached name and is part of two
\* more; the call returned the map of the equal one.
C27_Witness ==
    /\ IsCall /\ Cardinality(ExactRows) = 1
    /\ Cardinality(SubstringRows) >= 3
    /\ \E r \in ExactRows : ResolvedTo(r)

\* The vnl service's answer is a failure other than 404
VnlFailed ==
    /\ call.rvnl.status \notin {"unused", "404"}
    /\ \/ call.rvnl.status # "200" \/ call.rvnl.json # "dict"
       \/ call.rvnl.tpTier = None \/ call.rvnl.proTier = None

\* C29: CS:GO get_map in VNL mode, when the vnl service fails other than by
\* 404, returns a Map with tier and pro_tier None, named 'Unknown'; and the
\* vnl service is asked only in VNL mode, for a call with no bonus, whose map
\* came from the by-name lookup or from a row that lacks a VNL tier.
C29_VnlFailureIsUnknownTier ==
    IsCall =>
      /\ VnlFailed =>
           /\ call.out.kind = "ok"
           /\ call.out.map.tier = None /\ call.out.map.pro_tier = None
           /\ call.out.map.tier_name = "Unknown"
           /\ call.out.map.pro_tier_name = "Unknown"
      /\ DidIo("http_vnl") =>
           /\ call.mode = "VNL" /\ call.bonus \in {None, 0}
           /\ DidIo("http_map")
                \/ \E r \in ResolvedRows :
                      r.vnl_tier = None \/ r.vnl_pro_tier = None

\* C29 witness: a VNL call for a map the by-name lookup resolved, the vnl
\* service answering 500: the Map has no tier.
C29_Witness ==
    /\ IsCall /\ call.mode = "VNL" /\ call.rvnl.status = "500"
    /\ DidIo("http_map") /\ call.out.kind = "ok"
    /\ call.out.map.tier = None /\ call.out.map.tier_name = "Unknown"

\* The first answer of a get_wrs call holds a record that is a dict
TopRecordGot ==
    /\ pb.op = "cs2_get_wrs"
    /\ pb.rtop.status = "200" /\ pb.rtop.json = "list"
    /\ pb.rtop.values # <<>> /\ pb.rtop.values[1].kind # "notdict"

\* A list of at most two records, the fastest record first, at most one of
\* them without teleports
WrsShape ==
    /\ Len(pb.out.pbs) <= 2
    /\ Len(pb.out.pbs) >= 1 => pb.out.pbs[1].id = pb.rtop.values[1].id
    /\ Cardinality({i \in 1..Len(pb.out.pbs) :
                       pb.out.pbs[i].teleports = 0}) <= 1

-----------------------------------------------------------------------------
(* refresh_db_maps: one tick refreshes the CS:GO family, then the CS2 family *)

\* The answers of the family that `up` does not describe: its listing
\* cannot be had, or lists every map
OtherUpstreams(fam) ==
    IF fam = "csgo"
    THEN {Upstream("cs2", Response(st, FullListing("cs2", MaxMapId)),
                   NoVnl, "up") : st \in {"ok", "error"}}
    ELSE {Upstream("csgo", Response(st, FullListing("csgo", MaxMapId)),
                   Response("ok", <<VnlEntry(1, 2, 4)>>), "up") :
             st \in {"ok", "error"}}

\* refresh_db_maps: res1 is the outcome of refresh_csgo_db_maps, res that of
\* refresh_cs2_db_maps, which is awaited only if the first did not raise;
\* call.ran lists the refreshes that were started.
RefreshDbMaps ==
    /\ run = 0
    /\ \E other \in OtherUpstreams(up.fam) :
         LET ucsgo == IF up.fam = "csgo" THEN up ELSE other
             ucs2 == IF up.fam = "cs2" THEN up ELSE other
             first == refresh_csgo_db_maps(db, ucsgo)
             second == refresh_cs2_db_maps(first.db, ucs2)
         IN  /\ up' = [fam |-> "both", csgo |-> ucsgo, cs2 |-> ucs2]
             /\ res1' = first
             /\ res' = IF first.raised THEN Result(first.db, FALSE, <<>>)
                       ELSE second
             /\ call' = [op |-> "refresh_db_maps",
                         ran |-> IF first.raised THEN <<"csgo">>
                                 ELSE <<"csgo", "cs2">>]
             /\ db' = refresh_db_maps(db, ucsgo, ucs2)
    /\ before' = db
    /\ run' = 1
    /\ UNCHANGED <<pb, prof, prev>>

NextTick == RefreshDbMaps

SpecTick == InitRefresh /\ [][NextTick]_vars

\* The rows of one family
FamilyRows(table, cs2) == {r \in table : r.is_cs2 = cs2}

\* C28: a refresh whose catalog listing cannot be had returns without
\* raising, counts nothing and leaves every row as it was, and
\* refresh_db_maps, which refreshes CS:GO first, still refreshes CS2 after a
\* CS:GO listing failure.
C28_ListingFailureChangesNothing ==
    call.op = "refresh_db_maps" =>
      /\ call.ran[1] = "csgo"
      /\ up.csgo.maps.status # "ok" =>
           /\ res1 = Result(before, FALSE, <<>>)
           /\ ~res1.raised
           /\ FamilyRows(db, FALSE) = FamilyRows(before, FALSE)
           /\ call.ran = <<"csgo", "cs2">>
           /\ res = refresh_cs2_db_maps(before, up.cs2)
      /\ (up.cs2.maps.status # "ok" /\ call.ran = <<"csgo", "cs2">>) =>
           /\ res = Result(res1.db, FALSE, <<>>)
           /\ ~res.raised
           /\ db = res1.db
           /\ FamilyRows(db, TRUE) = FamilyRows(before, TRUE)

\* C28 witness: the CS:GO listing could not be had, the rows are as they
\* were, and the CS2 refresh that followed created a row.
C28_Witness ==
    /\ call.op = "refresh_db_maps"
    /\ up.csgo.maps.status # "ok" /\ up.cs2.maps.status = "ok"
    /\ FamilyRows(before, FALSE) # {}
    /\ FamilyRows(db, FALSE) = FamilyRows(before, FALSE)
    /\ res.fetched /\ res.new >= 1 /\ ~res.raised

\* C28 witness, second family: the CS:GO refresh changed the table and the
\* CS2 listing could not be had.
C28_WitnessCs2 ==
    /\ call.op = "refresh_db_maps"
    /\ up.csgo.maps.status = "ok" /\ up.cs2.maps.status # "ok"
    /\ res1.new >= 1 /\ FamilyRows(before, TRUE) # {}
    /\ db = res1.db

-----------------------------------------------------------------------------
(* bot._get_map: the map lookup of the commands *)

\* mode_name when the user gave no mode (None in the source)
NoModeName == ""

\* api_for_mode(mode).get_map(map_name, course, bonus)
api_get_map(table, mode, name, course, bonus, rcsgo, rvnl, rcs2, host) ==
    IF FamilyOf(mode) = "csgo"
    THEN Call(mode, name, course, bonus, rcsgo, rvnl, host,
              csgo_get_map(table, mode, name, course, bonus, rcsgo, rvnl,
                           host))
    ELSE Call(mode, name, course, bonus, rcs2, Unused, host,
              cs2_get_map(table, mode, name, course, bonus, rcs2, host))

\* The mode of no further call
NoMode == ""

\* A _get_map whose except clause retries whether or not a mode was given
bot_second_mode_retrying(mode, mode_name, bonus, first) ==
    IF first.kind \in {"APIConnectionError", "APIMapNotFoundError"}
    THEN IF mode \in {"KZT", "SKZ", "VNL"} THEN "CKZ" ELSE "KZT"
    ELSE NoMode

\* _get_map after its first get_map, whose outcome is `first`: the mode it
\* calls get_map in once more, NoMode when it raises or returns
bot_second_mode(mode, mode_name, bonus, first) ==
    IF first.kind \in {"APIConnectionError", "APIMapNotFoundError"}
    THEN IF mode_name # NoModeName THEN NoMode
         ELSE IF mode \in {"KZT", "SKZ", "VNL"} THEN "CKZ" ELSE "KZT"
    ELSE IF first.kind # "ok" THEN NoMode
    ELSE IF /\ bonus = None /\ mode_name = NoModeName
            /\ mode \in {"VNL", "VNL2"} /\ first.map.tier = 10
    THEN IF mode = "VNL" THEN "KZT" ELSE "CKZ"
    ELSE NoMode

\* _get_map: the get_map calls it makes, in order; its outcome is that of
\* the last one
bot_get_map(table, mode, mode_name, name, course, bonus, rcsgo, rvnl, rcs2, host) ==
    LET Get(m) == api_get_map(table, m, name, course, bonus, rcsgo, rvnl,
                              rcs2, host)
        first == Get(mode)
        second == bot_second_mode(mode, mode_name, bonus, first.out)
    IN  IF second = NoMode THEN <<first>> ELSE <<first, Get(second)>>

\* The answers of a family's by-name request, when get_map makes it
MapAnswers(fam, name) ==
    IF fam = "csgo"
    THEN IF NameOk(name) /\ resolve(db, name, FALSE).kind = "none"
         THEN CsgoMapResponses ELSE {Unused}
    ELSE IF NameOk(name) /\ resolve(db, name, TRUE).kind # "ambiguous"
         THEN Cs2MapResponses ELSE {Unused}

\* One command looks a map up: mode is the mode given, or the player's; a
\* bonus is 1 or more (BonusParams).  An answer is drawn for each request
\* the lookup makes: the vnl.kz answer when the first call asks for it, the
\* answer of the other family when the second call goes there, the state of
\* the thumbnail host when a call fetches a thumbnail.
BotGetMap ==
    /\ call = NoCall
    /\ \E mode \in Modes, name \in Queries, course \in CourseArgs,
         bonus \in BonusArgs \ {0} :
       \E mode_name \in {NoModeName, mode},
          own \in MapAnswers(FamilyOf(mode), name) :
        \E rvnl \in IF HasIo(api_get_map(db, mode, name, course, bonus, own,
                                 VnlMapResponse("404", "notdict", None, None),
                                 own, "up").out, "http_vnl")
                    THEN VnlMapResponses ELSE {Unused} :
         \E second \in {bot_second_mode(mode, mode_name, bonus,
                           api_get_map(db, mode, name, course, bonus, own,
                                       rvnl, own, "up").out)} :
          \E other \in IF second # NoMode
                          /\ FamilyOf(second) # FamilyOf(mode)
                       THEN MapAnswers(FamilyOf(second), name)
                       ELSE {own} :
           \E rcsgo \in {IF FamilyOf(mode) = "csgo" THEN own ELSE other},
              rcs2 \in {IF FamilyOf(mode) = "cs2" THEN own ELSE other} :
            \E served \in {bot_get_map(db, mode, mode_name, name, course,
                                       bonus, rcsgo, rvnl, rcs2, "up")} :
             \E host \in IF \E i \in 1..Len(served) :
                               HasIo(served[i].out, "http_thumb")
                         THEN Hosts ELSE {"up"} :
              \E calls \in {IF host = "up" THEN served
                            ELSE bot_get_map(db, mode, mode_name, name,
                                     course, bonus, rcsgo, rvnl, rcs2,
                                     host)} :
               /\ call' = [op |-> "bot_get_map", mode |-> mode,
                           mode_name |-> mode_name, name |-> name,
                           course |-> course, bonus |-> bonus,
                           calls |-> calls, out |-> calls[Len(calls)].out]
               /\ db' = GetMapTable(GetMapTable(db, calls[1].out),
                                    calls[Len(calls)].out)
    /\ before' = db
    /\ UNCHANGED <<up, run, res, res1, pb, prof, prev>>

NextBot == BotGetMap \/ GetMapReturn

SpecBot == InitMap /\ [][NextBot]_vars

\* The first get_map of the lookup failed to connect or found no map
FirstFailed ==
    call.calls[1].out.kind \in {"APIConnectionError", "APIMapNotFoundError"}

\* The first get_map of the lookup returned a VNL or VNL2 map of tier 10
\* and no bonus was asked for
FirstImpossible ==
    /\ call.calls[1].out.kind = "ok" /\ call.bonus = None
    /\ call.mode \in {"VNL", "VNL2"} /\ call.calls[1].out.map.tier = 10

\* C30: _get_map makes one get_map call in the mode given and, only when the
\* user gave no mode, exactly one more: on the other family after a
\* connection or not-found failure, in KZT/CKZ after a VNL/VNL2 map of tier
\* 10 without bonus.  Its outcome is that of the last call, so with a mode
\* given every error propagates, and so does a failure of the second call.
C30_AtMostOneFallback ==
    call.op = "bot_get_map" =>
      /\ Len(call.calls) \in {1, 2}
      /\ call.calls[1].mode = call.mode
      /\ call.out = call.calls[Len(call.calls)].out
      /\ call.mode_name # NoModeName => Len(call.calls) = 1
      /\ call.mode_name = NoModeName =>
           (Len(call.calls) = 2 <=> (FirstFailed \/ FirstImpossible))
      /\ (Len(call.calls) = 2 /\ FirstFailed) =>
           /\ FamilyOf(call.calls[2].mode) # FamilyOf(call.mode)
           /\ call.calls[2].mode \in {"KZT", "CKZ"}
      /\ (Len(call.calls) = 2 /\ FirstImpossible) =>
           /\ FamilyOf(call.calls[2].mode) = FamilyOf(call.mode)
           /\ call.calls[2].mode \in {"KZT", "CKZ"}

\* C30 witness: no mode given, the CS:GO lookup found no map, the one
\* attempt on CS2 failed too and its error is the outcome.
C30_Witness ==
    /\ call.op = "bot_get_map" /\ call.mode_name = NoModeName
    /\ call.mode = "KZT" /\ Len(call.calls) = 2
    /\ call.calls[1].out.kind = "APIMapNotFoundError"
    /\ call.calls[2].mode = "CKZ" /\ call.calls[2].out.kind # "ok"
    /\ call.out.kind = call.calls[2].out.kind

\* C30 witness, tier 10: no mode given, the player's mode is VNL, the map
\* has VNL tier 10 and is looked up again in KZT.
C30_WitnessImpossible ==
    /\ call.op = "bot_get_map" /\ call.mode_name = NoModeName
    /\ FirstImpossible /\ Len(call.calls) = 2
    /\ call.calls[2].mode = "KZT" /\ call.out.kind = "ok"

\* C30 witness, mode given: the lookup failed to connect and was not
\* repeated.
C30_WitnessChosen ==
    /\ call.op = "bot_get_map" /\ call.mode_name = call.mode
    /\ call.calls[1].out.kind = "APIConnectionError"
    /\ Len(call.calls) = 1 /\ call.out.kind = "APIConnectionError"

-----------------------------------------------------------------------------
(* Two refreshes of one family in flight: each await on the table (Map.get,
   save, delete) is one step, and the steps of the two runs interleave.  The
   thumbnail request lies between a run's Map.get and its save. *)

\* The well-formed entries of a listing, the ones whose handling awaits
ReentrantEntries(fam, id) ==
    IF fam = "csgo"
    THEN {CsgoEntry(TRUE, id, NameOf(fam, id), d, v) :
             d \in {3, 5}, v \in {"true", "false"}} \ 
         {CsgoEntry(TRUE, id, NameOf(fam, id), 5, "false")}
    ELSE {Cs2Entry(TRUE, id, "approved", NameOf(fam, id), TRUE, <<c>>) :
             c \in {Course(TRUE, Main, TRUE,
                           Filter("dict", "easy", "medium"), NoFilter),
                    Course(TRUE, <<"a">>, TRUE,
                           Filter("dict", "hard", "unknown"),
                           Filter("dict", "death", "impossible"))}}
         \cup {Cs2Entry(TRUE, id, "pending", NameOf(fam, id), TRUE, <<>>)}

RECURSIVE ReentrantListings(_, _)
ReentrantListings(fam, k) ==
    IF k > MaxMapId THEN {<<>>}
    ELSE LET rest == ReentrantListings(fam, k + 1) IN
         rest \cup {<<e>> \o l : e \in ReentrantEntries(fam, k), l \in rest}

\* A run of the loop: the entry it is at, the await it is before ("get",
\* "save") or how it ended, what its Map.get made it decide, and its tallies
RunAt(i, pc, plan, new, updated, deleted, started) ==
    [i |-> i, pc |-> pc, plan |-> plan, new |-> new, updated |-> updated,
     deleted |-> deleted, started |-> started]

NoPlan == Step({}, "none")

\* After an entry: the next one, or the end of the loop
RunNext(r, n) ==
    [r EXCEPT !.i = r.i + 1, !.plan = NoPlan, !.started = TRUE,
              !.pc = IF r.i + 1 > n THEN "done" ELSE "get"]

\* Both runs got the same listing.  call is the account of what was done to
\* the table: rows inserted, saves of an existing row that changed it, the
\* maps that have a second row, and whether a run took a step while the
\* other was under way.
InitReentrant ==
    /\ db \in EarlierTables
    /\ up \in UNION {{Upstream(fam, Response("ok", l),
                                Response("ok", <<VnlEntry(1, 2, 4)>>), h) :
                          h \in Hosts,
                          l \in ReentrantListings(fam, 1) \ {<<>>}} :
                      fam \in Families}
    /\ run = 0
    /\ before = db
    /\ res = [p \in 1..2 |-> RunAt(1, "get", NoPlan, 0, 0, 0, FALSE)]
    /\ res1 = NoResult
    /\ call = [op |-> "refresh", created |-> 0, changed |-> 0, dups |-> {},
               overlapped |-> FALSE]
    /\ pb = NoPb
    /\ prof = NoProf
    /\ prev = NoProf.profile

\* The other run is between its first step and its end
Overlaps(p) ==
    res[3 - p].started /\ res[3 - p].pc \in {"get", "save"}

\* await Map.get(map_id=..., is_cs2=...) and what follows up to the next
\* await on the table: the run decides from the rows it read.
RunGet ==
    \E p \in 1..2 :
      /\ res[p].pc = "get"
      /\ LET e == up.maps.body[res[p].i]
             rows == MapGetById(db, e.id, up.fam = "cs2")
             plan == IF up.fam = "csgo"
                     THEN csgo_entry(rows, e, vnl_tiers(up.vnl), up.host)
                     ELSE cs2_entry(rows, e, up.host)
             r == [res[p] EXCEPT !.started = TRUE]
         IN  res' = [res EXCEPT ![p] =
                       IF e.id \in call.dups \/ plan.kind = "raise"
                       THEN [r EXCEPT !.pc = "raised"]
                       ELSE IF plan.kind \in {"new", "updated", "deleted"}
                       THEN [r EXCEPT !.pc = "save", !.plan = plan]
                       ELSE RunNext(r, Len(up.maps.body))]
      /\ call' = [call EXCEPT !.overlapped = @ \/ Overlaps(p)]
      /\ UNCHANGED <<db, up, run, before, res1, pb, prof, prev>>

\* await Map(...).save(), await db_map.save() or await db_map.delete(), and
\* the tally that follows it.  The save of an existing row writes the run's
\* copy of it; the insert of a row whose map has one already is refused
\* (the run raises) or adds a second row, as the table's schema has it.
RunSave ==
    \E p \in 1..2 :
      /\ res[p].pc = "save"
      /\ LET e == up.maps.body[res[p].i]
             plan == res[p].plan
             rows == MapGetById(db, e.id, up.fam = "cs2")
             n == Len(up.maps.body)
             saved == IF rows = {} THEN db ELSE (db \ rows) \cup plan.db
             now == [call EXCEPT !.overlapped = @ \/ Overlaps(p)]
         IN  \/ /\ plan.kind = "new" /\ rows = {}
                /\ db' = db \cup plan.db
                /\ res' = [res EXCEPT ![p] =
                             RunNext([@ EXCEPT !.new = @ + 1], n)]
                /\ call' = [now EXCEPT !.created = @ + 1]
             \/ /\ plan.kind = "new" /\ rows # {}
                /\ db' = db
                /\ \/ /\ res' = [res EXCEPT ![p].pc = "raised"]
                      /\ call' = now
                   \/ /\ res' = [res EXCEPT ![p] =
                                   RunNext([@ EXCEPT !.new = @ + 1], n)]
                      /\ call' = [now EXCEPT !.created = @ + 1,
                                             !.dups = @ \cup {e.id}]
             \/ /\ plan.kind = "updated"
                /\ db' = saved
                /\ res' = [res EXCEPT ![p] =
                             RunNext([@ EXCEPT !.updated = @ + 1], n)]
                /\ call' = [now EXCEPT !.changed =
                                         IF saved # db THEN @ + 1 ELSE @]
             \/ /\ plan.kind = "deleted"
                /\ db' = db \ rows
                /\ res' = [res EXCEPT ![p] =
                             RunNext([@ EXCEPT !.deleted = @ + 1], n)]
                /\ call' = now
      /\ UNCHANGED <<up, run, before, res1, pb, prof, prev>>

NextReentrant == RunGet \/ RunSave

SpecReentrant == InitReentrant /\ [][NextReentrant]_vars

\* The rows the two runs counted as new or updated, and the rows that were
\* inserted or changed by a save
Counted == res[1].new + res[1].updated + res[2].new + res[2].updated
Written == call.created + call.changed

\* C26: two refreshes whose steps interleave can count more new and updated
\* rows than were created and changed; runs that do not interleave count
\* exactly the rows they created and changed, and no run counts fewer.
C26_DoubleCountNeedsInterleaving ==
    call.op = "refresh" =>
      /\ Counted >= Written
      /\ ~call.overlapped => Counted = Written

\* C26 witness: both runs read the same row before either saved it, both
\* saved and counted it, and the row changed once.
C26_Witness ==
    /\ call.op = "refresh"
    /\ res[1].pc = "done" /\ res[2].pc = "done"
    /\ res[1].updated = 1 /\ res[2].updated = 1
    /\ call.changed = 1 /\ call.created = 0
    /\ Counted > Written

\* C26 witness, missing map: both runs found no row for the map; the second
\* insert raised or made a second row, so the inserts counted are the rows
\* inserted.
C26_WitnessMissing ==
    /\ call.op = "refresh"
    /\ res[1].pc \in {"done", "raised"} /\ res[2].pc \in {"done", "raised"}
    /\ res[1].new + res[2].new = 2 /\ call.created = 2 /\ call.dups # {}

====
